---- MODULE Spec2Model ----
\* Reconciliation engine of upload_shopify_hybrid.py: process_csv_hybrid, run and
\* prune_missing_scraper_products against a remote catalog reached through
\* shopify_request.  Every remote call is one step; its outcome (success or a
\* ShopifyUploaderError after the retries) is drawn nondeterministically.
EXTENDS Integers, Sequences, FiniteSets, TLC

\* ---------------------------------------------------------------- bounds
MaxGroups == 2
MaxFailures == 1
MaxRemote == 2
MaxVariants == 3
\* SHOPIFY_MAX_RETRIES, the number of HTTP attempts of one call (default 3)
MAX_RETRIES == 3

\* ---------------------------------------------------------------- configuration
SCRAPER_TAG == "padel-scraper-1"
KEEP_DRAFT_TAG == "scraper:keep-draft"
IGNORE_TAGS == {"scraper:ignore", "no tocar"}

NoId == 0

\* str.lower() on the strings of the model
Lower(s) ==
    CASE s = "Scraper:Ignore" -> "scraper:ignore"
      [] s = "NO TOCAR" -> "no tocar"
      [] s = "M" -> "m"
      [] s = "L" -> "l"
      [] OTHER -> s

\* the tags field of a remote product is the set of its comma-separated items
split_tags(tags_raw) == {t \in tags_raw : t # ""}

\* has_ignore_tag comparing the tags as written
has_ignore_tag_exact(tags) == \E t \in tags : t \in IGNORE_TAGS

has_ignore_tag(tags) == \E t \in tags : Lower(t) \in IGNORE_TAGS

\* ---------------------------------------------------------------- remote products
NoProduct ==
    [alive |-> FALSE, handle |-> "", tags |-> {}, status |-> "", title |-> "",
     body_html |-> "", images |-> <<>>, variants |-> <<>>]

Variant(o, p, s, b, q) ==
    [option1 |-> o, price |-> p, compare_at_price |-> 0, sku |-> s, barcode |-> b,
     inventory_quantity |-> q]

Product(h, tags, status, variants) ==
    [alive |-> TRUE, handle |-> h, tags |-> tags, status |-> status, title |-> "T",
     body_html |-> "", images |-> <<>>, variants |-> variants]

RemoteHandles(r) == {r[i].handle : i \in {j \in DOMAIN r : r[j].alive}}

\* ---------------------------------------------------------------- the cache dict
CacheGet(map, h) == IF h \in DOMAIN map THEN map[h] ELSE NoId
CachePut(map, h, id) == [x \in DOMAIN map \cup {h} |-> IF x = h THEN id ELSE map[x]]
CachePop(map, h) == [x \in DOMAIN map \ {h} |-> map[x]]
EmptyMap == [x \in {} |-> NoId]

\* update_products_cache that never removes an entry
update_products_cache_keep(c, h, id) ==
    IF ~c.loaded \/ id = NoId THEN c
    ELSE [c EXCEPT !.map = CachePut(c.map, h, id)]

update_products_cache(c, h, id) ==
    IF ~c.loaded THEN c
    ELSE IF id = NoId THEN [c EXCEPT !.map = CachePop(c.map, h)]
    ELSE [c EXCEPT !.map = CachePut(c.map, h, id)]

\* ---------------------------------------------------------------- local batch
Row(h, o, p, q, b, st, img, desc) ==
    [handle |-> h, title |-> "T", description |-> desc, tags |-> <<>>, status |-> st,
     image |-> img, option1 |-> o, price |-> p, compare |-> 0, inventory |-> q,
     sku |-> "", barcode |-> b, wellformed |-> TRUE]

LocalImg == "http://s/a.jpg?w=1"
CdnImg == "http://cdn/a.jpg?v=2"
PlaceholderImg == "http://cdn/no-image.jpg"

\* a group: the rows of one handle, in file order
GA == <<Row("h1", "M", 1000, 5, "", "active", "", "")>>
GB == <<Row("h1", "M", 1000, 5, "b1", "active", "", ""),
        Row("h1", "L", 1000, 5, "", "active", "", "")>>
GC == <<Row("h2", "m", 2000, 7, "b1", "draft", LocalImg, "d")>>
GD == <<[Row("h2", "M", 1000, 5, "", "active", "", "") EXCEPT !.wellformed = FALSE]>>

GroupUniverse == {GA, GB, GC, GD}

\* group_rows_by_handle: a file is a dict handle -> rows, so its handles differ
IsFile(f) == \A i, j \in DOMAIN f : i # j => f[i][1].handle # f[j][1].handle

FileUniverse ==
    {f \in UNION {[1..n -> GroupUniverse] : n \in 0..MaxGroups} : IsFile(f)}

NumGroups(fs) == LET RECURSIVE cnt(_)
                     cnt(k) == IF k = 0 THEN 0 ELSE Len(fs[k]) + cnt(k - 1)
                 IN cnt(Len(fs))

\* the source directory: no CSV, one CSV (possibly without valid rows), or two CSVs
BatchUniverse ==
    {<<>>} \cup {<<f>> : f \in FileUniverse}
    \cup {fs \in [1..2 -> FileUniverse \ {<<>>}] : NumGroups(fs) <= MaxGroups}

\* ---------------------------------------------------------------- pure helpers
\* str.strip() on the strings of the model
Strip(s) ==
    CASE s = " M" -> "M"
      [] s = "m " -> "m"
      [] s = " x" -> "x"
      [] OTHER -> s

\* position of a lower-cased option value in Python's string order
OptRank(s) ==
    CASE s = " m" -> 0
      [] s = "default title" -> 1
      [] s = "l" -> 2
      [] s = "m" -> 3
      [] s = "m " -> 4
      [] OTHER -> 5

Abs(x) == IF x < 0 THEN 0 - x ELSE x

\* ascending sequence of a set of identifiers (the listing is ordered by id)
RECURSIVE SortedIds(_)
SortedIds(S) ==
    IF S = {} THEN <<>>
    ELSE LET m == CHOOSE x \in S : \A y \in S : x <= y
         IN <<m>> \o SortedIds(S \ {m})

\* _is_description_empty on the descriptions of the model
is_description_empty(html) == html \in {"", " ", "<br>", "<p> </p>", "&nbsp;"}

NormOption(o) == Lower(Strip(o))

CountOption(vs, o) == Cardinality({i \in DOMAIN vs : NormOption(vs[i].option1) = o})

\* compare_variants_structure on the option values as written
compare_variants_structure_exact(shopify_variants, csv_variants) ==
    \/ Len(shopify_variants) # Len(csv_variants)
    \/ \E o \in {shopify_variants[i].option1 : i \in DOMAIN shopify_variants}
            \cup {csv_variants[i].option1 : i \in DOMAIN csv_variants} :
          Cardinality({i \in DOMAIN shopify_variants : shopify_variants[i].option1 = o})
            # Cardinality({i \in DOMAIN csv_variants : csv_variants[i].option1 = o})

\* compare_variants_structure: TRUE when the product has to be recreated
compare_variants_structure(shopify_variants, csv_variants) ==
    \/ Len(shopify_variants) # Len(csv_variants)
    \/ \E o \in {NormOption(shopify_variants[i].option1) : i \in DOMAIN shopify_variants}
            \cup {NormOption(csv_variants[i].option1) : i \in DOMAIN csv_variants} :
          CountOption(shopify_variants, o) # CountOption(csv_variants, o)

\* sorted(variants, key=lambda v: (v.get("option1") or "").lower()), a stable sort
RECURSIVE SortByOption(_)
SortByOption(vs) ==
    IF vs = <<>> THEN <<>>
    ELSE LET key(i) == OptRank(Lower(vs[i].option1))
             m == CHOOSE i \in DOMAIN vs :
                    \A j \in DOMAIN vs : key(i) < key(j) \/ (key(i) = key(j) /\ i <= j)
             rest == [k \in 1..(Len(vs) - 1) |-> IF k < m THEN vs[k] ELSE vs[k + 1]]
         IN <<vs[m]>> \o SortByOption(rest)

\* compare_inventory: TRUE when some paired inventory quantity differs
compare_inventory(shopify_variants, csv_variants) ==
    \/ Len(shopify_variants) # Len(csv_variants)
    \/ LET ss == SortByOption(shopify_variants)
           cs == SortByOption(csv_variants)
       IN \E i \in DOMAIN ss : ss[i].inventory_quantity # cs[i].inventory_quantity

\* _find_csv_variant: index of the first CSV variant with that option, 0 for None
find_csv_variant(csv_variants, option1) ==
    LET hits == {i \in DOMAIN csv_variants :
                   NormOption(csv_variants[i].option1) = NormOption(option1)}
    IN IF hits = {} THEN 0 ELSE CHOOSE i \in hits : \A j \in hits : i <= j

\* abs(_to_float(s) - _to_float(c)) > 0.01 on amounts in cents. The floats of two
\* amounts one cent apart differ by a little less or a little more than the float
\* 0.01: 1.01 - 1.00 and 20.01 - 20.00 exceed it; 0.01 - 0.00, 10.00 - 9.99,
\* 10.01 - 10.00 and 10.02 - 10.01 do not
FloatGapExceedsCent(lo) == lo \in {100, 2000}

price_differs(s, c) ==
    IF Abs(s - c) = 1
    THEN FloatGapExceedsCent(IF s < c THEN s ELSE c)
    ELSE Abs(s - c) > 1

\* the fields update_product_smart puts in to_update for one remote variant
VariantDiff(s_var, csv_var) ==
    (IF price_differs(s_var.price, csv_var.price) THEN {"price"} ELSE {})
    \cup (IF price_differs(s_var.compare_at_price, csv_var.compare_at_price)
          THEN {"compare_at_price"} ELSE {})
    \cup (IF s_var.sku # csv_var.sku THEN {"sku"} ELSE {})
    \cup (IF s_var.barcode # csv_var.barcode THEN {"barcode"} ELSE {})

ApplyVariantDiff(s_var, csv_var, fields) ==
    [s_var EXCEPT
       !.price = IF "price" \in fields THEN csv_var.price ELSE @,
       !.compare_at_price = IF "compare_at_price" \in fields THEN csv_var.compare_at_price ELSE @,
       !.sku = IF "sku" \in fields THEN csv_var.sku ELSE @,
       !.barcode = IF "barcode" \in fields THEN csv_var.barcode ELSE @]

\* _norm, _filename and _is_placeholder of update_product_smart on the model's URLs
NormUrl(u) ==
    CASE u = "http://s/a.jpg?w=1" -> "http://s/a.jpg"
      [] u = "http://cdn/a.jpg?v=2" -> "http://cdn/a.jpg"
      [] OTHER -> u

Filename(u) ==
    CASE u = "http://s/a.jpg?w=1" -> "a.jpg"
      [] u = "http://cdn/a.jpg?v=2" -> "a.jpg"
      [] u = "http://cdn/no-image.jpg" -> "no-image.jpg"
      [] u = "http://cdn/z.jpg" -> "z.jpg"
      [] OTHER -> u

is_placeholder(u) == NormUrl(u) \in {"http://cdn/no-image.jpg"}

\* what update_product_smart decides for the image: "none", "add" or "replace"
ImagePlan(csv_image_url, shopify_images) ==
    IF csv_image_url = "" THEN "none"
    ELSE IF \E i \in DOMAIN shopify_images :
              \/ NormUrl(csv_image_url) = NormUrl(shopify_images[i])
              \/ Filename(csv_image_url) = Filename(shopify_images[i])
         THEN "none"
    ELSE IF shopify_images = <<>> THEN "add"
    ELSE IF is_placeholder(shopify_images[1]) THEN "replace"
    ELSE "none"

\* the src the remote serves for an image attached from url
StoredSrc(u) == IF u = "http://s/a.jpg?w=1" THEN "http://cdn/a.jpg?v=2" ELSE u

\* build_product_data_from_csv
build_product_data_from_csv(rows) ==
    [title |-> rows[1].title,
     body_html |-> rows[1].description,
     image_url |-> rows[1].image,
     variants |-> [i \in DOMAIN rows |->
        [option1 |-> IF Strip(rows[i].option1) = "" THEN "Default Title"
                     ELSE Strip(rows[i].option1),
         price |-> rows[i].price, compare_at_price |-> rows[i].compare,
         sku |-> rows[i].sku, barcode |-> rows[i].barcode,
         inventory_quantity |-> rows[i].inventory]]]

BuildFails(rows) == \E i \in DOMAIN rows : ~rows[i].wellformed

SeqToSet(q) == {q[i] : i \in DOMAIN q}

\* position of a tag in Python's string order
TagRank(t) ==
    CASE t = "X" -> 0
      [] t = "padel-scraper-1" -> 1
      [] t = "scraper:keep-draft" -> 2
      [] t = "x" -> 3
      [] OTHER -> 4

\* sorted() of a set of tags
RECURSIVE SortedTags(_)
SortedTags(S) ==
    IF S = {} THEN <<>>
    ELSE LET m == CHOOSE x \in S : \A y \in S : TagRank(x) <= TagRank(y)
         IN <<m>> \o SortedTags(S \ {m})

\* the items of the Tags cell, split at the commas (the cell is kept as its items)
RECURSIVE tag_list(_)
tag_list(items) ==
    IF items = <<>> THEN <<>>
    ELSE (IF Strip(Head(items)) # "" THEN <<Strip(Head(items))>> ELSE <<>>)
         \o tag_list(Tail(items))

\* the tag list with the scraper tag appended, as written
payload_tags_plain(items) == tag_list(items) \o <<SCRAPER_TAG>>

\* lines 846-848: sorted(set(tag_list + [SCRAPER_TAG]))
payload_tags(items) == SortedTags(SeqToSet(tag_list(items) \o <<SCRAPER_TAG>>))

\* the product create_product_from_csv posts
create_payload(rows) ==
    [alive |-> TRUE,
     handle |-> rows[1].handle,
     tags |-> SeqToSet(payload_tags(rows[1].tags)),
     status |-> IF Lower(rows[1].status) = "active" THEN "active" ELSE "draft",
     title |-> rows[1].title,
     body_html |-> rows[1].description,
     images |-> <<>>,
     variants |-> build_product_data_from_csv(rows).variants]

\* rows_to_use that leaves the status and the tags of the local rows alone
recreate_rows_as_local(rows, force_draft, existing_desc) ==
    IF existing_desc # "" /\ ~is_description_empty(existing_desc)
    THEN [rows EXCEPT ![1].description = existing_desc]
    ELSE rows

\* rows_to_use of the RECREATE branch
recreate_rows(rows, force_draft, existing_desc) ==
    LET drafted == IF force_draft
                   THEN [rows EXCEPT ![1].status = "draft",
                                     ![1].tags = IF KEEP_DRAFT_TAG \in SeqToSet(tag_list(@))
                                                 THEN tag_list(@)
                                                 ELSE Append(tag_list(@), KEEP_DRAFT_TAG)]
                   ELSE rows
    IN IF existing_desc # "" /\ ~is_description_empty(existing_desc)
       THEN [drafted EXCEPT ![1].description = existing_desc]
       ELSE drafted

\* the products a barcode/SKU query matches
KeyMatches(r, barcode, sku) ==
    {i \in DOMAIN r : r[i].alive /\ \E k \in DOMAIN r[i].variants :
        IF barcode # "" THEN r[i].variants[k].barcode = barcode
        ELSE r[i].variants[k].sku = sku}

\* ---------------------------------------------------------------- state
VARIABLES
    remote,             \* the remote catalog: identifier -> product
    next_id,            \* the identifier the remote assigns to the next create
    cache,              \* _existing_products_cache: [loaded, map]
    locs,               \* _locations_cache: "unloaded", "empty" or "one"
    failed_images,      \* len(_failed_images_report)
    files,              \* the CSV files of the source directory, sorted
    args,               \* run()'s flags: dry_run, disable_prune, skip_images
    pc,                 \* position of the single thread of control
    file_idx,           \* index of the CSV being processed
    grp_idx,            \* index of the group being processed in that CSV
    g,                  \* locals of the group iteration of process_csv_hybrid
    summary,            \* process_csv_hybrid's summary of the current CSV
    processed_handles,  \* process_csv_hybrid's processed_handles
    summary_total,      \* run()'s summary_total
    current_handles,    \* run()'s current_handles
    to_delete,          \* prune's to_delete list
    deleted,            \* prune's deleted counter
    calls,              \* remote calls issued so far in this run, in order
    faults,             \* remote failures that may still happen
    run_no,             \* 1 for the first run of the process, 2 for a re-run
    listing,            \* what the remote lists when no status is asked for:
                        \* "any" (every product) or "active" (active products only)
    http,               \* the call of shopify_request or shopify_graphql in progress:
                        \* its attempt counter, the responses so far, its result
    creds,              \* whether SHOP_DOMAIN and ACCESS_TOKEN are set
    report,             \* how many times failed_images_report.csv was written
    scan                \* one paginated scan of products.json in progress

vars == <<remote, next_id, cache, locs, failed_images, files, args, pc, file_idx,
          grp_idx, g, summary, processed_handles, summary_total, current_handles,
          to_delete, deleted, calls, faults, run_no, listing,
                   http, creds, report, scan>>

\* no paginated scan in progress
NoScan == [fn |-> "", catalog |-> {}, tagged |-> {}, last_id |-> 0, products |-> {},
           seen |-> <<>>, requests |-> 0, result |-> ""]

\* no call of shopify_request in progress
NoRequest == [fn |-> "", attempt |-> 0, responses |-> <<>>, waits |-> <<>>, result |-> ""]

AllCreds == [domain |-> TRUE, token |-> TRUE]

MaxId == MaxRemote + 2 * MaxGroups
Ids == 1..MaxId

Statuses == {"active", "draft", "archived"}

Summary0 ==
    [created |-> 0, updated |-> 0, recreated |-> 0, skipped |-> 0,
     updated_precio |-> 0, updated_stock |-> 0, updated_imagen |-> 0]

SummaryTotal0 ==
    [created |-> 0, updated |-> 0, recreated |-> 0, skipped |-> 0, pruned |-> 0,
     updated_precio |-> 0, updated_stock |-> 0, updated_imagen |-> 0]

G0 == [handle |-> "", existing_id |-> NoId, old_handle |-> "",
       shopify_product |-> NoProduct, vi |-> 0, created_id |-> NoId, kind |-> "",
       updates |-> [precio |-> FALSE, stock |-> FALSE, imagen |-> FALSE, otros |-> FALSE]]

\* a remote call fails only while the failure budget lasts
Outcomes == IF faults > 0 THEN {TRUE, FALSE} ELSE {TRUE}
Spend(ok) == IF ok THEN faults ELSE faults - 1

MutatingOps ==
    {"put_handle", "post_redirect", "post_product", "put_tags", "delete_product",
     "put_variant", "post_inventory", "post_image", "delete_image", "put_product"}

\* one entry of the call log: the call, its outcome, and the product it hit as it
\* was when the call was issued
CallOn(op, id, ok, phase, item, fields) ==
    [op |-> op, id |-> id, ok |-> ok, phase |-> phase,
     was |-> IF id \in DOMAIN remote THEN remote[id] ELSE NoProduct,
     item |-> item, fields |-> fields, sent |-> <<>>]

\* a call that names no variant and carries no field of the diff
Call(op, id, ok, phase) == CallOn(op, id, ok, phase, 0, {})

\* GET products.json with the status parameter given ("" for none), all pages
Listed(r, status) ==
    {i \in DOMAIN r :
        /\ r[i].alive /\ r[i].handle # ""
        /\ IF status = "" THEN listing = "any" \/ r[i].status = "active"
           ELSE r[i].status = status}

\* ---------------------------------------------------------------- initial catalogs
InitHandle(i) == IF i = 1 THEN "h1" ELSE IF i = 2 THEN "h3" ELSE "h2"

InitVariants(i) ==
    <<Variant("M", 1000, "", IF i = 2 THEN "b1" ELSE "", 5)>>

Plain(i) ==
    [Product(InitHandle(i), {SCRAPER_TAG}, "active", InitVariants(i))
       EXCEPT !.images = IF i = 2 THEN <<PlaceholderImg>> ELSE <<>>]

\* the catalogs a run starts from: product 1 is found by handle, product 2 by barcode
RunProducts(i) ==
    {NoProduct, Plain(i)}
    \cup (IF i = 1 THEN {[Plain(i) EXCEPT !.tags = @ \cup {"Scraper:Ignore"}]} ELSE {})
    \cup (IF i = 2 THEN {[Plain(i) EXCEPT !.status = "archived"],
                         [Plain(i) EXCEPT !.status = "draft"],
                         [Plain(i) EXCEPT !.tags = @ \cup {KEEP_DRAFT_TAG}]}
          ELSE {})

PruneTagChoices ==
    {{}, {SCRAPER_TAG}, {SCRAPER_TAG, KEEP_DRAFT_TAG}, {SCRAPER_TAG, "Scraper:Ignore"},
     {SCRAPER_TAG, "no tocar"}}

\* the catalogs the pruner is called on
PruneProducts(i) ==
    {NoProduct} \cup {Product(InitHandle(i), t, s, InitVariants(i)) :
                        t \in PruneTagChoices, s \in Statuses}

\* the products slot i of an initial catalog may hold, for a run or for the pruner
SlotProducts(for_prune, i) == IF for_prune THEN PruneProducts(i) ELSE RunProducts(i)

Catalogs(for_prune) ==
    {[i \in Ids |-> IF i <= MaxRemote THEN c[i] ELSE NoProduct] :
        c \in {d \in [1..MaxRemote ->
                        UNION {SlotProducts(for_prune, i) : i \in 1..MaxRemote}] :
                  \A i \in 1..MaxRemote : d[i] \in SlotProducts(for_prune, i)}}

\* the handle -> id mapping one full scan of the catalog yields
HandleMap(r, ids) ==
    [h \in {r[i].handle : i \in ids} |->
        CHOOSE i \in ids : r[i].handle = h /\ \A j \in ids : r[j].handle = h => i <= j]

ScanMap(r) == HandleMap(r, Listed(r, ""))

\* the mapping of upload_shopify_original.py: a scan without status, one of the
\* drafts and one of the archived products
\* within one scan the last product of a handle wins, across scans the first scan
ScanMapByStatus(r) ==
    LET Has(st, h) == \E i \in Listed(r, st) : r[i].handle = h
        Last(st, h) == CHOOSE i \in Listed(r, st) :
                           r[i].handle = h /\ \A j \in Listed(r, st) : r[j].handle = h => j <= i
        ids == Listed(r, "") \cup Listed(r, "draft") \cup Listed(r, "archived")
    IN [h \in {r[i].handle : i \in ids} |->
           IF Has("", h) THEN Last("", h)
           ELSE IF Has("draft", h) THEN Last("draft", h) ELSE Last("archived", h)]

\* ---------------------------------------------------------------- reconciler
Rows == files[file_idx][grp_idx]

RunFrame ==
    UNCHANGED <<files, args, file_idx, summary_total, current_handles, to_delete,
                deleted, run_no, listing,
                   http, creds, report, scan>>

\* the loop of process_csv_hybrid moves to the next group, or returns
NextGroup ==
    /\ g' = G0
    /\ IF grp_idx < Len(files[file_idx])
       THEN grp_idx' = grp_idx + 1 /\ pc' = "group"
       ELSE grp_idx' = grp_idx /\ pc' = "file_end"

\* summary[field] += 1; processed_handles.add(h); continue
Finish(field, h) ==
    /\ summary' = [summary EXCEPT ![field] = @ + 1]
    /\ processed_handles' = processed_handles \cup {h}
    /\ NextGroup

\* the skip test without the dry-run flag
SkipGroup_ignores_dry_run(rows) == BuildFails(rows)

\* lines 1008-1020: a group is skipped in dry-run or when its rows cannot be built
SkipGroup(rows) == args.dry_run \/ BuildFails(rows)

\* lines 1004-1028: dry-run, build_product_data_from_csv, the secondary keys
GroupBegin ==
    /\ pc = "group"
    /\ LET rows == Rows
       IN IF SkipGroup(rows)
          THEN Finish("skipped", rows[1].handle)
          ELSE /\ g' = [G0 EXCEPT !.handle = rows[1].handle]
               /\ pc' = IF rows[1].barcode # "" \/ Strip(rows[1].sku) # ""
                        THEN "lookup" ELSE "resolve"
               /\ UNCHANGED <<summary, processed_handles, grp_idx>>
    /\ UNCHANGED <<remote, next_id, cache, locs, failed_images, calls, faults>>
    /\ RunFrame

\* line 337: the one key the query names
lookup_key(barcode) == IF barcode # "" THEN "barcode" ELSE "sku"

\* find_product_by_barcode_or_sku: an error is logged and None returned
Lookup ==
    /\ pc = "lookup"
    /\ \E ok \in Outcomes :
        LET m == IF ok THEN KeyMatches(remote, Rows[1].barcode, Strip(Rows[1].sku)) ELSE {}
        IN /\ faults' = Spend(ok)
           /\ calls' = Append(calls, CallOn("graphql_lookup", NoId, ok, "reconcile", 0,
                                             {lookup_key(Rows[1].barcode)}))
           /\ IF m = {}
              THEN g' = g /\ pc' = "resolve"
              ELSE \E id \in m :
                   /\ g' = [g EXCEPT !.existing_id = id, !.old_handle = remote[id].handle]
                   /\ pc' = IF remote[id].handle # "" /\ remote[id].handle # g.handle
                            THEN "rename" ELSE "fetch"
    /\ UNCHANGED <<remote, next_id, cache, locs, failed_images, summary,
                   processed_handles, grp_idx>>
    /\ RunFrame

\* the local handle kept whatever the PUT answered
handle_after_rename_new(done, new, old) == new

\* line 1077: after a failed PUT the old handle stands for the group
handle_after_rename(done, new, old) == IF done THEN new ELSE old

\* lines 1042-1051 and 1069-1077: PUT of the new handle; on any error keep the old one
Rename ==
    /\ pc = "rename"
    /\ \E ok \in Outcomes :
        LET id == g.existing_id
            taken == g.handle \in RemoteHandles(remote)
            done == ok /\ ~taken /\ remote[id].alive
        IN /\ faults' = Spend(ok)
           /\ calls' = Append(calls, CallOn("put_handle", id, done, "reconcile",
                                             0, {g.handle}))
           /\ g' = [g EXCEPT !.handle = handle_after_rename(done, g.handle, g.old_handle)]
           /\ IF done
              THEN /\ remote' = [remote EXCEPT ![id].handle = g.handle]
                   /\ pc' = "redirect"
              ELSE /\ remote' = remote
                   /\ pc' = "fetch"
    /\ UNCHANGED <<next_id, cache, locs, failed_images, summary, processed_handles, grp_idx>>
    /\ RunFrame

\* lines 1053-1067: the redirect (its error is swallowed), then the cache
Redirect ==
    /\ pc = "redirect"
    /\ \E ok \in Outcomes :
        /\ faults' = Spend(ok)
        /\ calls' = Append(calls, Call("post_redirect", g.existing_id, ok, "reconcile"))
    /\ cache' = update_products_cache(update_products_cache(cache, g.old_handle, NoId),
                                      g.handle, g.existing_id)
    /\ pc' = "fetch"
    /\ UNCHANGED <<remote, next_id, locs, failed_images, summary, processed_handles,
                   grp_idx, g>>
    /\ RunFrame

\* find_existing_product_id: the first call scans the catalog, outside any try
\* a loaded cache that holds no handle counts as not loaded
cache_is_loaded_nonempty(c) == c.loaded /\ c.map # EmptyMap

cache_is_loaded(c) == c.loaded

Resolve ==
    /\ pc = "resolve"
    /\ IF cache_is_loaded(cache)
       THEN /\ g' = [g EXCEPT !.existing_id = CacheGet(cache.map, g.handle)]
            /\ pc' = IF CacheGet(cache.map, g.handle) = NoId THEN "create" ELSE "fetch"
            /\ UNCHANGED <<cache, calls, faults>>
       ELSE \E ok \in Outcomes :
            /\ faults' = Spend(ok)
            /\ calls' = Append(calls, Call("list_products", NoId, ok, "reconcile"))
            /\ IF ok
               THEN /\ cache' = [loaded |-> TRUE, map |-> ScanMap(remote)]
                    /\ g' = [g EXCEPT !.existing_id = CacheGet(ScanMap(remote), g.handle)]
                    /\ pc' = IF CacheGet(ScanMap(remote), g.handle) = NoId
                             THEN "create" ELSE "fetch"
               ELSE /\ pc' = "aborted"
                    /\ UNCHANGED <<cache, g>>
    /\ UNCHANGED <<remote, next_id, locs, failed_images, summary, processed_handles, grp_idx>>
    /\ RunFrame

\* the handle the remote gives a created product whose handle is taken
Dedup(h) == h \o "-1"

CreateOutcomes(h) ==
    (IF h \notin RemoteHandles(remote) \/ Dedup(h) \notin RemoteHandles(remote)
     THEN {"ok"} ELSE {})
    \cup (IF faults > 0 THEN {"error", "empty"} ELSE {})
    \cup (IF h \in RemoteHandles(remote) THEN {"error"} ELSE {})

\* the tally of a create that leaves the cache as it was
Tally_stale_cache(kind, id) ==
    /\ cache' = cache
    /\ Finish(kind, g.handle)

\* summary[kind] += 1 and the cache entry, once create_product_from_csv returned an id
Tally(kind, id) ==
    /\ cache' = update_products_cache(cache, g.handle, id)
    /\ Finish(kind, g.handle)

\* create_product_from_csv up to its POST, and what the caller does with the answer
PostProduct(rows, out, kind) ==
    LET payload == create_payload(rows)
        taken == payload.handle \in RemoteHandles(remote)
        made == [payload EXCEPT !.handle = IF taken THEN Dedup(@) ELSE @]
    IN /\ faults' = IF out = "ok" \/ (out = "error" /\ taken) THEN faults ELSE faults - 1
       /\ calls' = Append(calls, [Call("post_product", IF out = "ok" THEN next_id ELSE NoId,
                                       out = "ok", "reconcile")
                                      EXCEPT !.sent = payload_tags(rows[1].tags)])
       /\ IF out = "ok"
          THEN /\ remote' = [remote EXCEPT ![next_id] = made]
               /\ next_id' = next_id + 1
               /\ IF ~args.skip_images /\ rows[1].image # ""
                  THEN /\ g' = [g EXCEPT !.created_id = next_id, !.kind = kind]
                       /\ pc' = "attach_image"
                       /\ UNCHANGED <<cache, summary, processed_handles, grp_idx>>
                  ELSE Tally(kind, next_id)
          ELSE /\ UNCHANGED <<remote, next_id, cache>>
               /\ Finish("skipped", g.handle)

\* CASO 1, lines 1084-1098
Create ==
    /\ pc = "create"
    /\ next_id <= MaxId
    /\ \E out \in CreateOutcomes(Rows[1].handle) : PostProduct(Rows, out, "created")
    /\ UNCHANGED <<locs, failed_images>>
    /\ RunFrame

\* add_image_to_product after a create: it never raises, a failure is reported
AttachImage ==
    /\ pc = "attach_image"
    /\ \E ok \in Outcomes :
        /\ faults' = Spend(ok)
        /\ calls' = Append(calls, Call("post_image", g.created_id, ok, "reconcile"))
        /\ remote' = IF ok THEN [remote EXCEPT ![g.created_id].images =
                                    <<StoredSrc(Rows[1].image)>> \o @]
                     ELSE remote
        /\ failed_images' = IF ok THEN failed_images ELSE failed_images + 1
    /\ Tally(g.kind, g.created_id)
    /\ UNCHANGED <<next_id, locs>>
    /\ RunFrame

DraftLocked(p) == Lower(p.status) = "draft" \/ KEEP_DRAFT_TAG \in split_tags(p.tags)

\* the product recreated whatever the comparison says
AfterProtect_always_delete(p) == "delete"

\* line 1133: RECREATE when the variant structure differs, else update_product_smart
AfterProtect(p) ==
    IF compare_variants_structure(p.variants, build_product_data_from_csv(Rows).variants)
    THEN "delete" ELSE "upd_variants"

\* lines 1101-1122: the snapshot and the protection checks
Fetch ==
    /\ pc = "fetch"
    /\ \E ok \in Outcomes :
        LET got == ok /\ remote[g.existing_id].alive
            p == remote[g.existing_id]
        IN /\ faults' = Spend(ok)
           /\ calls' = Append(calls, Call("get_product", g.existing_id, got, "reconcile"))
           /\ IF ~got \/ has_ignore_tag(split_tags(p.tags)) \/ Lower(p.status) = "archived"
              THEN Finish("skipped", g.handle)
              ELSE /\ g' = [g EXCEPT !.shopify_product = p]
                   /\ pc' = IF DraftLocked(p) /\ KEEP_DRAFT_TAG \notin split_tags(p.tags)
                            THEN "addtag" ELSE AfterProtect(p)
                   /\ UNCHANGED <<summary, processed_handles, grp_idx>>
    /\ UNCHANGED <<remote, next_id, cache, locs, failed_images>>
    /\ RunFrame

\* lines 1123-1131: make the keep-draft tag visible; an error is swallowed
AddTag ==
    /\ pc = "addtag"
    /\ \E ok \in Outcomes :
        /\ faults' = Spend(ok)
        /\ calls' = Append(calls, Call("put_tags", g.existing_id, ok, "reconcile"))
        /\ remote' = IF ok
                     THEN [remote EXCEPT ![g.existing_id].tags =
                             split_tags(g.shopify_product.tags) \cup {KEEP_DRAFT_TAG}]
                     ELSE remote
    /\ pc' = AfterProtect(g.shopify_product)
    /\ UNCHANGED <<next_id, cache, locs, failed_images, summary, processed_handles,
                   grp_idx, g>>
    /\ RunFrame

\* the delete's error is swallowed and the create follows
Delete_then_create ==
    /\ pc = "delete"
    /\ \E ok \in Outcomes :
        LET gone == ok /\ remote[g.existing_id].alive
        IN /\ faults' = Spend(ok)
           /\ calls' = Append(calls, Call("delete_product", g.existing_id, gone, "reconcile"))
           /\ remote' = IF gone THEN [remote EXCEPT ![g.existing_id] = NoProduct] ELSE remote
           /\ cache' = update_products_cache(cache, g.handle, NoId)
           /\ pc' = "recreate"
           /\ UNCHANGED <<g, summary, processed_handles, grp_idx>>
    /\ UNCHANGED <<next_id, locs, failed_images>>
    /\ RunFrame

\* CASO 2, lines 1140-1141: delete_product, then the cache entry
Delete ==
    /\ pc = "delete"
    /\ \E ok \in Outcomes :
        LET gone == ok /\ remote[g.existing_id].alive
        IN /\ faults' = Spend(ok)
           /\ calls' = Append(calls, Call("delete_product", g.existing_id, gone, "reconcile"))
           /\ IF gone
              THEN /\ remote' = [remote EXCEPT ![g.existing_id] = NoProduct]
                   /\ cache' = update_products_cache(cache, g.handle, NoId)
                   /\ pc' = "recreate"
                   /\ UNCHANGED <<g, summary, processed_handles, grp_idx>>
              ELSE /\ UNCHANGED <<remote, cache>>
                   /\ Finish("skipped", g.handle)
    /\ UNCHANGED <<next_id, locs, failed_images>>
    /\ RunFrame

\* CASO 2, lines 1143-1176
Recreate ==
    /\ pc = "recreate"
    /\ next_id <= MaxId
    /\ LET rows_to_use == recreate_rows(Rows, DraftLocked(g.shopify_product),
                                        g.shopify_product.body_html)
       IN \E out \in CreateOutcomes(rows_to_use[1].handle) :
            PostProduct(rows_to_use, out, "recreated")
    /\ UNCHANGED <<locs, failed_images>>
    /\ RunFrame

\* ---------------------------------------------------------------- update_product_smart
CsvVariants == build_product_data_from_csv(Rows).variants

\* lines 615-647: one remote variant of the loop, PUT only when something differs
UpdVariant ==
    /\ pc = "upd_variants"
    /\ LET sv == g.shopify_product.variants
           i == g.vi + 1
           k == find_csv_variant(CsvVariants, sv[i].option1)
           d == IF k = 0 THEN {} ELSE VariantDiff(sv[i], CsvVariants[k])
           upd == [g.updates EXCEPT
                     !.precio = @ \/ (d \cap {"price", "compare_at_price"} # {}),
                     !.otros = @ \/ (d \cap {"sku", "barcode"} # {})]
           goon == /\ g' = [g EXCEPT !.vi = IF i = Len(sv) THEN 0 ELSE i, !.updates = upd]
                   /\ pc' = IF i = Len(sv) THEN "upd_inventory" ELSE "upd_variants"
                   /\ UNCHANGED <<summary, processed_handles, grp_idx>>
       IN IF d = {}
          THEN goon /\ UNCHANGED <<remote, calls, faults>>
          ELSE \E ok \in Outcomes :
               /\ faults' = Spend(ok)
               /\ calls' = Append(calls, CallOn("put_variant", g.existing_id, ok,
                                             "reconcile", i, d))
               /\ IF ok
                  THEN /\ remote' = [remote EXCEPT ![g.existing_id].variants[i] =
                                        ApplyVariantDiff(@, CsvVariants[k], d)]
                       /\ goon
                  ELSE /\ remote' = remote
                       /\ Finish("skipped", g.handle)
    /\ UNCHANGED <<next_id, cache, locs, failed_images>>
    /\ RunFrame

\* lines 653-657: compare_inventory, then get_primary_location_id
UpdInventory ==
    /\ pc = "upd_inventory"
    /\ IF ~compare_inventory(g.shopify_product.variants, CsvVariants)
       THEN /\ pc' = "upd_image"
            /\ UNCHANGED <<locs, calls, faults, g, summary, processed_handles, grp_idx>>
       ELSE IF locs # "unloaded"
       THEN /\ pc' = IF locs = "empty" THEN "upd_image" ELSE "upd_inv_set"
            /\ UNCHANGED <<locs, calls, faults, g, summary, processed_handles, grp_idx>>
       ELSE \E ok \in Outcomes :
            /\ faults' = Spend(ok)
            /\ calls' = Append(calls, Call("get_locations", NoId, ok, "reconcile"))
            /\ IF ok
               THEN /\ \E l \in {"one", "empty"} :
                        /\ locs' = l
                        /\ pc' = IF l = "empty" THEN "upd_image" ELSE "upd_inv_set"
                    /\ UNCHANGED <<g, summary, processed_handles, grp_idx>>
               ELSE /\ locs' = locs
                    /\ Finish("skipped", g.handle)
    /\ UNCHANGED <<remote, next_id, cache, failed_images>>
    /\ RunFrame

\* lines 658-672: inventory_levels/set for every remote variant that has a CSV variant
UpdInvSet ==
    /\ pc = "upd_inv_set"
    /\ LET sv == g.shopify_product.variants
           i == g.vi + 1
           k == find_csv_variant(CsvVariants, sv[i].option1)
           goon == /\ g' = [g EXCEPT !.vi = IF i = Len(sv) THEN 0 ELSE i,
                                     !.updates.stock = IF i = Len(sv) THEN TRUE ELSE @]
                   /\ pc' = IF i = Len(sv) THEN "upd_image" ELSE "upd_inv_set"
                   /\ UNCHANGED <<summary, processed_handles, grp_idx>>
       IN IF k = 0
          THEN goon /\ UNCHANGED <<remote, calls, faults>>
          ELSE \E ok \in Outcomes :
               /\ faults' = Spend(ok)
               /\ calls' = Append(calls, CallOn("post_inventory", g.existing_id, ok,
                                             "reconcile", i, {"inventory_quantity"}))
               /\ IF ok
                  THEN /\ remote' = [remote EXCEPT
                                       ![g.existing_id].variants[i].inventory_quantity =
                                         CsvVariants[k].inventory_quantity]
                       /\ goon
                  ELSE /\ remote' = remote
                       /\ Finish("skipped", g.handle)
    /\ UNCHANGED <<next_id, cache, locs, failed_images>>
    /\ RunFrame

\* the image counts as updated whatever add_image_to_product answered
image_added_always(ok) == TRUE

\* lines 706-712 and 716-722: updates["imagen"] is set only when the attach succeeded
image_added(ok) == ok

\* lines 675-734: the image, added only when no equivalent is in the gallery
UpdImage ==
    /\ pc = "upd_image"
    /\ LET plan == IF args.skip_images THEN "none"
                   ELSE ImagePlan(Strip(Rows[1].image), g.shopify_product.images)
       IN IF plan = "none"
          THEN /\ pc' = "upd_product"
               /\ UNCHANGED <<remote, failed_images, calls, faults, g>>
          ELSE \E ok \in Outcomes :
               /\ faults' = Spend(ok)
               /\ calls' = Append(calls, Call("post_image", g.existing_id, ok, "reconcile"))
               /\ remote' = IF ok THEN [remote EXCEPT ![g.existing_id].images =
                                           <<StoredSrc(Rows[1].image)>> \o @]
                            ELSE remote
               /\ failed_images' = IF ok THEN failed_images ELSE failed_images + 1
               /\ g' = [g EXCEPT !.updates.imagen = image_added(ok)]
               /\ pc' = IF ok /\ plan = "replace" THEN "upd_placeholder" ELSE "upd_product"
    /\ UNCHANGED <<next_id, cache, locs, summary, processed_handles, grp_idx>>
    /\ RunFrame

DropImage(images, src) ==
    LET keep == {i \in DOMAIN images : images[i] # src}
    IN [k \in 1..Cardinality(keep) |-> images[SortedIds(keep)[k]]]

\* lines 727-732: the placeholder is deleted; an error is swallowed
UpdPlaceholder ==
    /\ pc = "upd_placeholder"
    /\ \E ok \in Outcomes :
        /\ faults' = Spend(ok)
        /\ calls' = Append(calls, Call("delete_image", g.existing_id, ok, "reconcile"))
        /\ remote' = IF ok THEN [remote EXCEPT ![g.existing_id].images =
                                    DropImage(@, g.shopify_product.images[1])]
                     ELSE remote
    /\ pc' = "upd_product"
    /\ UNCHANGED <<next_id, cache, locs, failed_images, summary, processed_handles,
                   grp_idx, g>>
    /\ RunFrame

\* product_update that takes the local description whenever it has content
ProductDiff_local_wins(shopify_product, csv_data) ==
    (IF shopify_product.title # csv_data.title THEN {"title"} ELSE {})
    \cup (IF ~is_description_empty(csv_data.body_html)
             /\ shopify_product.body_html # csv_data.body_html
          THEN {"body_html"} ELSE {})

\* the fields of product_update besides the id
ProductDiff(shopify_product, csv_data) ==
    (IF shopify_product.title # csv_data.title THEN {"title"} ELSE {})
    \cup (IF is_description_empty(shopify_product.body_html)
             /\ ~is_description_empty(csv_data.body_html)
          THEN {"body_html"} ELSE {})

\* summary of one UPDATE outcome, lines 1181-1192
CountUpdate(sm, updates) ==
    IF updates.precio \/ updates.stock \/ updates.imagen \/ updates.otros
    THEN [sm EXCEPT !.updated = @ + 1,
                    !.updated_precio = IF updates.precio THEN @ + 1 ELSE @,
                    !.updated_stock = IF updates.stock THEN @ + 1 ELSE @,
                    !.updated_imagen = IF updates.imagen THEN @ + 1 ELSE @]
    ELSE [sm EXCEPT !.skipped = @ + 1]

\* lines 737-757 and 1181-1198: title/description, then the tally of the group
UpdProduct ==
    /\ pc = "upd_product"
    /\ LET csv_data == build_product_data_from_csv(Rows)
           d == ProductDiff(g.shopify_product, csv_data)
           tally(updates) ==
               /\ summary' = CountUpdate(summary, updates)
               /\ processed_handles' = processed_handles \cup {g.handle}
               /\ NextGroup
       IN IF d = {}
          THEN tally(g.updates) /\ UNCHANGED <<remote, calls, faults>>
          ELSE \E ok \in Outcomes :
               /\ faults' = Spend(ok)
               /\ calls' = Append(calls, CallOn("put_product", g.existing_id, ok,
                                             "reconcile", 0, d))
               /\ IF ok
                  THEN /\ remote' = [remote EXCEPT
                            ![g.existing_id].title =
                                IF "title" \in d THEN csv_data.title ELSE @,
                            ![g.existing_id].body_html =
                                IF "body_html" \in d THEN csv_data.body_html ELSE @]
                       /\ tally([g.updates EXCEPT !.otros = TRUE])
                  ELSE /\ remote' = remote
                       /\ Finish("skipped", g.handle)
    /\ UNCHANGED <<next_id, cache, locs, failed_images>>
    /\ RunFrame

\* ---------------------------------------------------------------- run()
GroupFrame == UNCHANGED <<remote, next_id, cache, locs, failed_images, g, calls, faults>>

\* the test of the credentials looking at the token alone
configured_token_only(c) == c.token

\* line 1210: both SHOP_DOMAIN and ACCESS_TOKEN are non-empty
configured(c) == c.domain /\ c.token

\* lines 1210-1230: the credentials, then the CSV files of the directory
RunStart ==
    /\ pc = "run_start"
    /\ IF ~configured(creds)
       THEN pc' = "aborted" /\ file_idx' = file_idx
       ELSE IF files = <<>>
       THEN pc' = "done" /\ file_idx' = file_idx
       ELSE pc' = "file_start" /\ file_idx' = 1
    /\ UNCHANGED <<files, args, grp_idx, summary, processed_handles, summary_total,
                   current_handles, to_delete, deleted, run_no, listing,
                   http, creds, report, scan>>
    /\ GroupFrame

\* process_csv_hybrid, lines 986-1002
FileStart ==
    /\ pc = "file_start"
    /\ summary' = Summary0
    /\ processed_handles' = {}
    /\ IF files[file_idx] = <<>>
       THEN pc' = "file_end" /\ grp_idx' = 0
       ELSE pc' = "group" /\ grp_idx' = 1
    /\ UNCHANGED <<files, args, file_idx, summary_total, current_handles, to_delete,
                   deleted, run_no, listing,
                   http, creds, report, scan>>
    /\ GroupFrame

\* process_csv_hybrid returns; run() adds the summary and the handles, lines 1234-1239
FileEnd ==
    /\ pc = "file_end"
    /\ summary_total' = [k \in DOMAIN summary_total |->
                           IF k \in DOMAIN summary THEN summary_total[k] + summary[k]
                           ELSE summary_total[k]]
    /\ current_handles' = current_handles \cup processed_handles
    /\ IF file_idx < Len(files)
       THEN file_idx' = file_idx + 1 /\ pc' = "file_start"
       ELSE file_idx' = file_idx /\ pc' = "run_prune"
    /\ UNCHANGED <<files, args, grp_idx, summary, processed_handles, to_delete, deleted,
                   run_no, listing,
                   http, creds, report, scan>>
    /\ GroupFrame

\* the pruner called whenever it is not disabled
should_prune_any(a, handles) == ~a.disable_prune

\* line 1242: if not disable_prune and current_handles
should_prune(a, handles) == ~a.disable_prune /\ handles # {}

\* lines 1241-1247
RunPrune ==
    /\ pc = "run_prune"
    /\ pc' = IF should_prune(args, current_handles) THEN "prune_entry" ELSE "report"
    /\ UNCHANGED <<files, args, file_idx, grp_idx, summary, processed_handles,
                   summary_total, current_handles, to_delete, deleted, run_no, listing,
                   http, creds, report, scan>>
    /\ GroupFrame

\* lines 1249-1262: the report of failed images, then return summary_total
Report ==
    /\ pc = "report"
    /\ pc' = "done"
    /\ report' = IF failed_images > 0 THEN report + 1 ELSE report
    /\ UNCHANGED <<files, args, file_idx, grp_idx, summary, processed_handles,
                   summary_total, current_handles, to_delete, deleted, run_no, listing,
                   http, creds, scan>>
    /\ GroupFrame

\* ---------------------------------------------------------------- pruner
\* list_scraper_products without the tag filter
list_all_products(r) == Listed(r, "")

\* list_scraper_products: the products whose tags hold SCRAPER_TAG
list_scraper_products(r) ==
    {i \in Listed(r, "") : SCRAPER_TAG \in split_tags(r[i].tags)}

\* the filter without the test on current_handles
PruneKeeps_ignores_handles(p, handles) ==
    \/ Lower(p.status) = "archived"
    \/ has_ignore_tag(split_tags(p.tags))
    \/ KEEP_DRAFT_TAG \in split_tags(p.tags)

\* the filter of prune_missing_scraper_products on one listed product
PruneKeeps(p, handles) ==
    \/ p.handle \in handles
    \/ Lower(p.status) = "archived"
    \/ has_ignore_tag(split_tags(p.tags))
    \/ KEEP_DRAFT_TAG \in split_tags(p.tags)

PruneStart ==
    /\ pc = "prune_entry"
    /\ IF args.dry_run
       THEN /\ pc' = "report"
            /\ summary_total' = [summary_total EXCEPT !.pruned = 0]
            /\ UNCHANGED <<to_delete, deleted, calls, faults>>
       ELSE \E ok \in Outcomes :
            /\ calls' = Append(calls, Call("list_products", NoId, ok, "prune"))
            /\ faults' = Spend(ok)
            /\ IF ~ok
               THEN /\ pc' = "aborted"
                    /\ UNCHANGED <<to_delete, deleted, summary_total>>
               ELSE LET listed == list_scraper_products(remote)
                        del == {i \in listed : ~PruneKeeps(remote[i], current_handles)}
                    IN /\ to_delete' = [k \in 1..Cardinality(del) |->
                                          <<remote[SortedIds(del)[k]].handle, SortedIds(del)[k]>>]
                       /\ deleted' = 0
                       /\ IF del = {}
                          THEN /\ pc' = "report"
                               /\ summary_total' = [summary_total EXCEPT !.pruned = 0]
                          ELSE /\ pc' = "prune_delete"
                               /\ UNCHANGED summary_total
    /\ UNCHANGED <<remote, next_id, cache, locs, failed_images, files, args, file_idx,
                   grp_idx, g, summary, processed_handles, current_handles, run_no, listing,
                   http, creds, report, scan>>

PruneDelete ==
    /\ pc = "prune_delete"
    /\ to_delete # <<>>
    /\ \E ok \in Outcomes :
        LET h == Head(to_delete)[1]
            id == Head(to_delete)[2]
            n == IF ok THEN deleted + 1 ELSE deleted
        IN /\ calls' = Append(calls, Call("delete_product", id, ok, "prune"))
           /\ faults' = Spend(ok)
           /\ remote' = IF ok THEN [remote EXCEPT ![id] = NoProduct] ELSE remote
           /\ cache' = IF ok THEN update_products_cache(cache, h, NoId) ELSE cache
           /\ deleted' = n
           /\ to_delete' = Tail(to_delete)
           /\ IF Tail(to_delete) = <<>>
              THEN /\ pc' = "report"
                   /\ summary_total' = [summary_total EXCEPT !.pruned = n]
              ELSE /\ pc' = "prune_delete"
                   /\ UNCHANGED summary_total
    /\ UNCHANGED <<next_id, locs, failed_images, files, args, file_idx, grp_idx, g,
                   summary, processed_handles, current_handles, run_no, listing,
                   http, creds, report, scan>>

\* prune_missing_scraper_products called on any catalog with any handle set
InitPrune ==
    /\ remote \in Catalogs(TRUE)
    /\ listing = "any"
    /\ http = NoRequest
    /\ creds = AllCreds
    /\ report = 0
    /\ scan = NoScan
    /\ next_id = MaxRemote + 1
    /\ cache \in {[loaded |-> FALSE, map |-> EmptyMap], [loaded |-> TRUE, map |-> ScanMap(remote)]}
    /\ locs = "unloaded"
    /\ failed_images = 0
    /\ files = <<>>
    /\ args \in [dry_run : BOOLEAN, disable_prune : {FALSE}, skip_images : {FALSE}]
    /\ pc = "prune_entry"
    /\ file_idx = 0
    /\ grp_idx = 0
    /\ g = G0
    /\ summary = Summary0
    /\ processed_handles = {}
    /\ summary_total = SummaryTotal0
    /\ current_handles \in SUBSET {InitHandle(i) : i \in 1..(MaxRemote + 1)}
    /\ to_delete = <<>>
    /\ deleted = 0
    /\ calls = <<>>
    /\ faults = MaxFailures
    /\ run_no = 1

NextPrune == PruneStart \/ PruneDelete

SpecPrune == InitPrune /\ [][NextPrune]_vars

\* ---------------------------------------------------------------- one run
\* the command lines: no flag, --dry-run, or --disable-prune --skip-images
Flags ==
    {[dry_run |-> FALSE, disable_prune |-> FALSE, skip_images |-> FALSE],
     [dry_run |-> TRUE, disable_prune |-> FALSE, skip_images |-> FALSE],
     [dry_run |-> FALSE, disable_prune |-> TRUE, skip_images |-> TRUE]}

InitRunOn(budget, cs, batches) ==
    /\ remote \in Catalogs(FALSE)
    /\ next_id = MaxRemote + 1
    /\ cache = [loaded |-> FALSE, map |-> EmptyMap]
    /\ locs = "unloaded"
    /\ failed_images = 0
    /\ files \in batches
    /\ args \in Flags
    /\ pc = "run_start"
    /\ file_idx = 0
    /\ grp_idx = 0
    /\ g = G0
    /\ summary = Summary0
    /\ processed_handles = {}
    /\ summary_total = SummaryTotal0
    /\ current_handles = {}
    /\ to_delete = <<>>
    /\ deleted = 0
    /\ calls = <<>>
    /\ faults = budget
    /\ run_no = 1
    /\ listing = "any"
    /\ http = NoRequest
    /\ creds \in cs
    /\ report = 0
    /\ scan = NoScan

\* a run over any batch of the universe
InitRunWith(budget, cs) == InitRunOn(budget, cs, BatchUniverse)

\* a run with both credentials set
InitRun(budget) == InitRunWith(budget, {AllCreds})

Init == InitRun(MaxFailures)

Next ==
    \/ RunStart \/ FileStart \/ GroupBegin \/ Lookup \/ Rename \/ Redirect \/ Resolve
    \/ Create \/ AttachImage \/ Fetch \/ AddTag \/ Delete \/ Recreate
    \/ UpdVariant \/ UpdInventory \/ UpdInvSet \/ UpdImage \/ UpdPlaceholder \/ UpdProduct
    \/ FileEnd \/ RunPrune \/ PruneStart \/ PruneDelete \/ Report

Spec == Init /\ [][Next]_vars

\* ---------------------------------------------------------------- two runs
\* the script is started again on the same directory, in a new process, after a run
\* that completed without a failed remote call
Rerun ==
    /\ pc = "done"
    /\ run_no = 1
    /\ \A k \in DOMAIN calls : calls[k].ok
    /\ run_no' = 2
    /\ pc' = "run_start"
    /\ cache' = [loaded |-> FALSE, map |-> EmptyMap]
    /\ locs' = "unloaded"
    /\ failed_images' = 0
    /\ file_idx' = 0
    /\ grp_idx' = 0
    /\ g' = G0
    /\ summary' = Summary0
    /\ processed_handles' = {}
    /\ summary_total' = SummaryTotal0
    /\ current_handles' = {}
    /\ to_delete' = <<>>
    /\ deleted' = 0
    /\ calls' = <<>>
    /\ report' = 0
    /\ UNCHANGED <<remote, next_id, files, args, faults, listing, http, creds, scan>>

InitTwice == InitRun(0)

NextTwice == Next \/ Rerun

SpecTwice == InitTwice /\ [][NextTwice]_vars

\* ---------------------------------------------------------------- configuration
\* a run without remote failures, with or without each of the two credentials
Creds == [domain : BOOLEAN, token : BOOLEAN]

InitConfig == InitRunWith(0, Creds)

SpecConfig == InitConfig /\ [][Next]_vars

\* ---------------------------------------------------------------- one group
\* process_csv_hybrid on a CSV of one group against a catalog of at most one product
OneOptions == {"M", "m ", "L"}
OptionLists == UNION {[1..n -> OneOptions] : n \in 1..MaxVariants}

OneVariant(o) == Variant(o, 1000, "", "", 5)
OneRow(o) == Row("h1", o, 1000, 5, "", "active", "", "")
OneProduct(variants) == Product("h1", {SCRAPER_TAG}, "active", variants)

Case(product, rows) == [product |-> product, rows |-> rows]

\* every pair of option lists, the values of all variants equal
StructureCases ==
    {Case(OneProduct([i \in DOMAIN ro |-> OneVariant(ro[i])]),
          [i \in DOMAIN lo |-> OneRow(lo[i])]) :
        ro \in OptionLists, lo \in OptionLists}

\* one variant paired across letter case, its values equal or not
PriceCases ==
    {Case(OneProduct(<<[OneVariant("M") EXCEPT !.price = rp]>>),
          <<[OneRow("m") EXCEPT !.price = rp + dp, !.compare = cmp, !.sku = sku,
                                !.inventory = inv]>>) :
        rp \in {1000, 2000}, dp \in {-1, 0, 1, 2}, cmp \in {0, 1, 2},
        sku \in {"", "s1"}, inv \in {5, 7}}

\* status, description, image and title of the remote product against the local row
TextCases ==
    {Case([OneProduct(<<OneVariant("M")>>) EXCEPT !.status = st, !.body_html = body,
                                                   !.images = imgs],
          <<[OneRow(o) EXCEPT !.description = desc, !.image = img, !.title = title]>>) :
        st \in {"active", "draft"}, body \in {"", "<br>", "old"},
        imgs \in {<<>>, <<PlaceholderImg>>, <<CdnImg>>},
        o \in {"m", "L"}, desc \in {"", "d"}, img \in {"", LocalImg},
        title \in {"T", "T2"}}

\* two variants, each with its own price and inventory
PairCases ==
    {Case(OneProduct(<<OneVariant("M"), OneVariant("L")>>),
          <<[OneRow("m") EXCEPT !.price = p1, !.inventory = i1],
            [OneRow("L") EXCEPT !.price = p2, !.inventory = i2]>>) :
        p1 \in {1000, 1002}, p2 \in {1000, 1002}, i1 \in {5, 7}, i2 \in {5, 7}}
    \cup
    {Case(OneProduct(<<OneVariant("M"), [OneVariant("L") EXCEPT !.inventory_quantity = 7]>>),
          <<[OneRow("l") EXCEPT !.inventory = i1], [OneRow("m") EXCEPT !.inventory = i2]>>) :
        i1 \in {5, 7}, i2 \in {5, 7}}

\* a product with a barcode and a SKU, under the local handle or another one,
\* against a row whose keys match it or not
KeyCases ==
    {Case([OneProduct(<<[OneVariant("M") EXCEPT !.barcode = "b1", !.sku = "s1"]>>)
              EXCEPT !.handle = h, !.status = st],
          <<[OneRow("M") EXCEPT !.barcode = b, !.sku = sku]>>) :
        h \in {"h1", "h3"}, st \in {"active", "archived"}, b \in {"", "b1", "b2"},
        sku \in {"", "s1", "s2"}}

\* no remote product
CreateCases ==
    {Case(NoProduct, <<[OneRow("M") EXCEPT !.image = img, !.description = desc]>>) :
        img \in {"", LocalImg}, desc \in {"", "d"}}

\* the items a Tags cell may hold between its commas
TagItems == {"", "x", " x", "X", SCRAPER_TAG, KEEP_DRAFT_TAG}

TagCells == {<<>>} \cup {<<a>> : a \in TagItems} \cup {<<a, b>> : a, b \in TagItems}

\* any Tags cell, on a group that is created, or recreated with or without draft lock
TagCases ==
    {Case(p, <<[OneRow("M") EXCEPT !.tags = t], OneRow("L")>>) :
        p \in {NoProduct, OneProduct(<<OneVariant("M")>>),
               [OneProduct(<<OneVariant("M")>>) EXCEPT !.status = "draft"]},
        t \in TagCells}

OneCases ==
    StructureCases \cup PriceCases \cup TextCases \cup PairCases \cup KeyCases
    \cup CreateCases \cup TagCases

InitOne ==
    /\ \E c \in OneCases :
        /\ remote = [i \in Ids |-> IF i = 1 THEN c.product ELSE NoProduct]
        /\ files = <<<<c.rows>>>>
    /\ next_id = MaxRemote + 1
    /\ cache = [loaded |-> FALSE, map |-> EmptyMap]
    /\ locs = "unloaded"
    /\ failed_images = 0
    /\ args = [dry_run |-> FALSE, disable_prune |-> FALSE, skip_images |-> FALSE]
    /\ pc = "group"
    /\ file_idx = 1
    /\ grp_idx = 1
    /\ g = G0
    /\ summary = Summary0
    /\ processed_handles = {}
    /\ summary_total = SummaryTotal0
    /\ current_handles = {}
    /\ to_delete = <<>>
    /\ deleted = 0
    /\ calls = <<>>
    /\ faults = MaxFailures
    /\ run_no = 1
    /\ listing = "any"
    /\ http = NoRequest
    /\ creds = AllCreds
    /\ report = 0
    /\ scan = NoScan

NextOne ==
    \/ GroupBegin \/ Lookup \/ Rename \/ Redirect \/ Resolve \/ Create \/ AttachImage
    \/ Fetch \/ AddTag \/ Delete \/ Recreate
    \/ UpdVariant \/ UpdInventory \/ UpdInvSet \/ UpdImage \/ UpdPlaceholder \/ UpdProduct

SpecOne == InitOne /\ [][NextOne]_vars

\* ---------------------------------------------------------------- cache scan
\* find_existing_product_id of upload_shopify_original.py on an unloaded cache
ResolveByStatus ==
    /\ pc = "resolve"
    /\ ~cache.loaded
    /\ \E ok \in Outcomes :
        /\ faults' = Spend(ok)
        /\ IF ok
           THEN /\ calls' = calls \o <<Call("list_products", NoId, TRUE, "reconcile"),
                                       CallOn("list_products", NoId, TRUE, "reconcile",
                                              0, {"draft"}),
                                       CallOn("list_products", NoId, TRUE, "reconcile",
                                              0, {"archived"})>>
                /\ cache' = [loaded |-> TRUE, map |-> ScanMapByStatus(remote)]
                /\ g' = [g EXCEPT !.existing_id = CacheGet(ScanMapByStatus(remote), g.handle)]
                /\ pc' = IF CacheGet(ScanMapByStatus(remote), g.handle) = NoId
                         THEN "create" ELSE "fetch"
           ELSE /\ calls' = Append(calls, Call("list_products", NoId, FALSE, "reconcile"))
                /\ pc' = "aborted"
                /\ UNCHANGED <<cache, g>>
    /\ UNCHANGED <<remote, next_id, locs, failed_images, summary, processed_handles, grp_idx>>
    /\ RunFrame

\* the first resolve of a run: any catalog, either behaviour of the default listing
InitCache ==
    /\ remote \in Catalogs(TRUE)
    /\ listing \in {"any", "active"}
    /\ http = NoRequest
    /\ creds = AllCreds
    /\ report = 0
    /\ scan = NoScan
    /\ files \in {<<<<GA>>>>, <<<<[GA EXCEPT ![1].handle = "h3"]>>>>}
    /\ next_id = MaxRemote + 1
    /\ cache = [loaded |-> FALSE, map |-> EmptyMap]
    /\ locs = "unloaded"
    /\ failed_images = 0
    /\ args = [dry_run |-> FALSE, disable_prune |-> FALSE, skip_images |-> FALSE]
    /\ pc = "group"
    /\ file_idx = 1
    /\ grp_idx = 1
    /\ g = G0
    /\ summary = Summary0
    /\ processed_handles = {}
    /\ summary_total = SummaryTotal0
    /\ current_handles = {}
    /\ to_delete = <<>>
    /\ deleted = 0
    /\ calls = <<>>
    /\ faults = MaxFailures
    /\ run_no = 1

NextCache == GroupBegin \/ Resolve \/ ResolveByStatus

SpecCache == InitCache /\ [][NextCache]_vars

\* ---------------------------------------------------------------- shopify_request
\* One call of shopify_request or shopify_graphql: each step is one HTTP attempt and
\* what the loop does with its answer.  Status 0 stands for an exception of
\* _NETWORK_ERRORS raised by requests.
HttpStatuses == {0, 200, 302, 404, 422, 429, 500, 503}

\* what the body of a GraphQL answer holds
GraphqlBodies == {"data", "empty", "notjson", "errors", "nodata"}

\* the body matters only to shopify_graphql and only below status 400
Responses(fn) ==
    {r \in [status : HttpStatuses, body : GraphqlBodies \cup {""}] :
        r.body # "" <=> (fn = "graphql" /\ r.status # 0 /\ r.status < 400)}

\* every error status is retried while attempts remain
retry_any_error(status, attempt) == status >= 400 /\ attempt < MAX_RETRIES - 1

\* lines 238-243 and 392-397: a 5xx answer is retried unless this is the last attempt
retry_server_error(status, attempt) == status >= 500 /\ attempt < MAX_RETRIES - 1

\* lines 224-262: one iteration of the loop of shopify_request
request_step(status, attempt) ==
    IF status = 0
    THEN IF attempt < MAX_RETRIES - 1 THEN "running" ELSE "raised"
    ELSE IF status = 429 THEN "running"
    ELSE IF retry_server_error(status, attempt) THEN "running"
    ELSE IF status >= 400 THEN "raised"
    ELSE "returned"

\* the time.sleep an iteration of shopify_request runs after its HTTP attempt: the
\* server-suggested wait (238), a backoff (245, 260), the fixed delay (253) or none
request_wait(status, attempt) ==
    IF status = 0
    THEN IF attempt < MAX_RETRIES - 1 THEN "backoff" ELSE "none"
    ELSE IF status = 429 THEN "rate"
    ELSE IF retry_server_error(status, attempt) THEN "backoff"
    ELSE IF status >= 400 THEN "none"
    ELSE "fixed"

\* the same for shopify_graphql (386, 393, 430, 423): an answer it rejects raises
\* before the fixed delay
graphql_wait(status, body, attempt) ==
    IF request_wait(status, attempt) # "fixed" THEN request_wait(status, attempt)
    ELSE IF body = "data" THEN "fixed" ELSE "none"

\* lines 378-434: one iteration of the loop of shopify_graphql
graphql_step(status, body, attempt) ==
    IF request_step(status, attempt) # "returned" THEN request_step(status, attempt)
    ELSE IF body = "data" THEN "returned" ELSE "raised"

\* the loop ended and the last answer is handed back
exhausted_result_last == "returned"

\* lines 264 and 436: the loop ended without a return
exhausted_result == "raised"

Running == http.result = "running"

RequestAttempt ==
    /\ http.fn = "request"
    /\ Running
    /\ http.attempt < MAX_RETRIES
    /\ \E r \in Responses("request") :
        http' = [http EXCEPT !.attempt = @ + 1,
                             !.responses = Append(@, r),
                             !.waits = Append(@, request_wait(r.status, http.attempt)),
                             !.result = request_step(r.status, http.attempt)]
    /\ UNCHANGED <<remote, next_id, cache, locs, failed_images, files, args, pc, file_idx,
                   grp_idx, g, summary, processed_handles, summary_total,
                   current_handles, to_delete, deleted, calls, faults, run_no, listing,
                   creds, report, scan>>

GraphqlAttempt ==
    /\ http.fn = "graphql"
    /\ Running
    /\ http.attempt < MAX_RETRIES
    /\ \E r \in Responses("graphql") :
        http' = [http EXCEPT !.attempt = @ + 1,
                             !.responses = Append(@, r),
                             !.waits = Append(@, graphql_wait(r.status, r.body,
                                                              http.attempt)),
                             !.result = graphql_step(r.status, r.body, http.attempt)]
    /\ UNCHANGED <<remote, next_id, cache, locs, failed_images, files, args, pc, file_idx,
                   grp_idx, g, summary, processed_handles, summary_total,
                   current_handles, to_delete, deleted, calls, faults, run_no, listing,
                   creds, report, scan>>

\* the for loop is over
Exhausted ==
    /\ Running
    /\ http.attempt >= MAX_RETRIES
    /\ http' = [http EXCEPT !.result = exhausted_result]
    /\ UNCHANGED <<remote, next_id, cache, locs, failed_images, files, args, pc, file_idx,
                   grp_idx, g, summary, processed_handles, summary_total,
                   current_handles, to_delete, deleted, calls, faults, run_no, listing,
                   creds, report, scan>>

InitRequest ==
    /\ http \in {[NoRequest EXCEPT !.fn = fn, !.result = "running"] :
                    fn \in {"request", "graphql"}}
    /\ remote = [i \in Ids |-> NoProduct]
    /\ files = <<>>
    /\ next_id = MaxRemote + 1
    /\ cache = [loaded |-> FALSE, map |-> EmptyMap]
    /\ locs = "unloaded"
    /\ failed_images = 0
    /\ args = [dry_run |-> FALSE, disable_prune |-> FALSE, skip_images |-> FALSE]
    /\ pc = "call"
    /\ file_idx = 0
    /\ grp_idx = 0
    /\ g = G0
    /\ summary = Summary0
    /\ processed_handles = {}
    /\ summary_total = SummaryTotal0
    /\ current_handles = {}
    /\ to_delete = <<>>
    /\ deleted = 0
    /\ calls = <<>>
    /\ faults = 0
    /\ run_no = 1
    /\ listing = "any"
    /\ creds = AllCreds
    /\ report = 0
    /\ scan = NoScan

NextRequest == RequestAttempt \/ GraphqlAttempt \/ Exhausted

SpecRequest == InitRequest /\ [][NextRequest]_vars

\* the loop runs on: nothing but the remote's answers can hold a call up
FairRequest == SpecRequest /\ WF_vars(NextRequest)

\* ---------------------------------------------------------------- add_image_to_product
\* One call of add_image_to_product: each step is one iteration of its loop, that is
\* one call of shopify_request and the handling of its outcome.
IMAGE_RETRIES == 5

\* shopify_request returned, raised an error naming 422 or an invalid image, raised
\* another ShopifyUploaderError, or another exception came up
ImageOutcomes == {"ok", "invalid", "error", "exception"}

\* lines 474-475: without a product id or without a URL nothing is tried or reported
ImageNoInput ==
    /\ http.fn = "image"
    /\ Running
    /\ pc = "call_noinput"
    /\ http' = [http EXCEPT !.result = "false"]
    /\ UNCHANGED <<remote, next_id, cache, locs, failed_images, files, args, pc, file_idx,
                   grp_idx, g, summary, processed_handles, summary_total,
                   current_handles, to_delete, deleted, calls, faults, run_no, listing,
                   creds, report, scan>>

\* lines 489-515: one iteration of the loop
ImageAttempt ==
    /\ http.fn = "image"
    /\ Running
    /\ pc = "call"
    /\ http.attempt < IMAGE_RETRIES
    /\ \E out \in ImageOutcomes :
        /\ http' = [http EXCEPT !.attempt = @ + 1,
                                !.responses = Append(@, out),
                                !.result = CASE out = "ok" -> "true"
                                             [] out = "invalid" -> "false"
                                             [] OTHER -> "running"]
        /\ failed_images' = IF out = "invalid" THEN failed_images + 1 ELSE failed_images
    /\ UNCHANGED <<remote, next_id, cache, locs, files, args, pc, file_idx,
                   grp_idx, g, summary, processed_handles, summary_total,
                   current_handles, to_delete, deleted, calls, faults, run_no, listing,
                   creds, report, scan>>

\* the loop is over and False is returned without a report entry
ImageGiveUp_unreported ==
    /\ http.fn = "image"
    /\ Running
    /\ pc = "call"
    /\ http.attempt >= IMAGE_RETRIES
    /\ http' = [http EXCEPT !.result = "false"]
    /\ UNCHANGED <<remote, next_id, cache, locs, failed_images, files, args, pc, file_idx,
                   grp_idx, g, summary, processed_handles, summary_total,
                   current_handles, to_delete, deleted, calls, faults, run_no, listing,
                   creds, report, scan>>

\* lines 517-523: the loop is over, the failure is reported
ImageGiveUp ==
    /\ http.fn = "image"
    /\ Running
    /\ pc = "call"
    /\ http.attempt >= IMAGE_RETRIES
    /\ http' = [http EXCEPT !.result = "false"]
    /\ failed_images' = failed_images + 1
    /\ UNCHANGED <<remote, next_id, cache, locs, files, args, pc, file_idx,
                   grp_idx, g, summary, processed_handles, summary_total,
                   current_handles, to_delete, deleted, calls, faults, run_no, listing,
                   creds, report, scan>>

InitImage ==
    /\ http = [NoRequest EXCEPT !.fn = "image", !.result = "running"]
    /\ remote = [i \in Ids |-> NoProduct]
    /\ files = <<>>
    /\ next_id = MaxRemote + 1
    /\ cache = [loaded |-> FALSE, map |-> EmptyMap]
    /\ locs = "unloaded"
    /\ failed_images = 0
    /\ args = [dry_run |-> FALSE, disable_prune |-> FALSE, skip_images |-> FALSE]
    /\ pc \in {"call", "call_noinput"}
    /\ file_idx = 0
    /\ grp_idx = 0
    /\ g = G0
    /\ summary = Summary0
    /\ processed_handles = {}
    /\ summary_total = SummaryTotal0
    /\ current_handles = {}
    /\ to_delete = <<>>
    /\ deleted = 0
    /\ calls = <<>>
    /\ faults = 0
    /\ run_no = 1
    /\ listing = "any"
    /\ creds = AllCreds
    /\ report = 0
    /\ scan = NoScan

NextImage == ImageNoInput \/ ImageAttempt \/ ImageGiveUp

SpecImage == InitImage /\ [][NextImage]_vars

\* the loop runs on: every attempt is a call of shopify_request, which returns or raises
FairImage == SpecImage /\ WF_vars(NextImage)

\* ---------------------------------------------------------------- interrupt
\* KeyboardInterrupt is raised in the main thread wherever it stands.  No handler of
\* process_csv_hybrid, run or the request layer names it (they catch Exception or
\* ShopifyUploaderError), so it unwinds to main, which logs and returns 130.
Interrupt ==
    /\ pc \notin {"done", "aborted", "interrupted"}
    /\ pc' = "interrupted"
    /\ UNCHANGED <<remote, next_id, cache, locs, failed_images, files, args, file_idx,
                   grp_idx, g, summary, processed_handles, summary_total,
                   current_handles, to_delete, deleted, calls, faults, run_no, listing,
                   http, creds, report, scan>>

NextInterrupt == NextOne \/ Interrupt

\* one group, interrupted at any point or not at all
SpecInterrupt == InitOne /\ [][NextInterrupt]_vars

\* ---------------------------------------------------------------- properties
\* the protection flags as the specification words them, on the tags of the model
IgnoreSpellings == {"scraper:ignore", "Scraper:Ignore", "no tocar", "NO TOCAR"}
Ignored(p) == p.tags \cap IgnoreSpellings # {}
Archived(p) == p.status = "archived"
DraftLockedProduct(p) == p.status = "draft" \/ KEEP_DRAFT_TAG \in p.tags
ScraperTagged(p) == SCRAPER_TAG \in p.tags

PruneDeleteCalls ==
    {k \in DOMAIN calls : calls[k].op = "delete_product" /\ calls[k].phase = "prune"}

MutatingCalls ==
    {k \in DOMAIN calls : calls[k].op \in MutatingOps}

PruneReturned == pc = "report" /\ ~args.dry_run /\ calls # <<>>

\* C1: no mutating call of the reconciler (update, handle rename, redirect, tag
\* change, delete, recreate) is ever issued against a remote product that is
\* ignore-tagged or archived when the call is issued.
C1_ProtectedNeverMutated ==
    \A k \in MutatingCalls :
        (calls[k].phase = "reconcile" /\ calls[k].was.alive)
            => ~(Ignored(calls[k].was) \/ Archived(calls[k].was))

\* C2: the pruner never deletes a product whose handle is in current_handles.
C2_PruneSparesProcessed ==
    \A k \in PruneDeleteCalls : calls[k].was.handle \notin current_handles

C2_Witness ==
    /\ PruneReturned
    /\ \E k \in PruneDeleteCalls : calls[k].ok
    /\ \E i \in Ids : /\ remote[i].alive /\ remote[i].handle \in current_handles
                      /\ ScraperTagged(remote[i]) /\ remote[i].status = "active"
                      /\ ~Ignored(remote[i]) /\ ~DraftLockedProduct(remote[i])

\* C3: the pruner never deletes a draft-locked product, i.e. one whose status is
\* draft or whose tags hold the keep-draft tag.
C3_PruneSparesDraftLocked ==
    \A k \in PruneDeleteCalls : ~DraftLockedProduct(calls[k].was)

\* C4: the pruner never deletes a product that is archived or carries an ignore tag
\* in any letter case.
C4_PruneSparesArchivedIgnored ==
    \A k \in PruneDeleteCalls : ~Archived(calls[k].was) /\ ~Ignored(calls[k].was)

C4_Witness ==
    /\ PruneReturned
    /\ \E k \in PruneDeleteCalls : calls[k].ok
    /\ \E i \in Ids : /\ remote[i].alive /\ remote[i].handle \notin current_handles
                      /\ ScraperTagged(remote[i]) /\ remote[i].status = "active"
                      /\ "Scraper:Ignore" \in remote[i].tags

\* C5: the pruner deletes only products that carry the scraper-identity tag.
C5_PruneOnlyScraperTagged ==
    \A k \in PruneDeleteCalls : ScraperTagged(calls[k].was)

C5_Witness ==
    /\ PruneReturned
    /\ \E k \in PruneDeleteCalls : calls[k].ok
    /\ \E i \in Ids : /\ remote[i].alive /\ remote[i].handle \notin current_handles
                      /\ remote[i].tags = {} /\ remote[i].status = "active"

\* C6: when prune has run, every scraper-tagged product that is absent from
\* current_handles and neither archived, ignore-flagged nor draft-locked was issued a
\* delete; each successful delete removed the product and its cache entry; and the
\* returned count is the number of deletes that succeeded.
C6_PruneDeletesObsolete ==
    PruneReturned =>
        /\ \A i \in Ids :
             (/\ remote[i].alive /\ ScraperTagged(remote[i])
              /\ remote[i].handle \notin current_handles
              /\ ~Archived(remote[i]) /\ ~Ignored(remote[i])
              /\ ~DraftLockedProduct(remote[i]))
                => \E k \in PruneDeleteCalls : calls[k].id = i /\ ~calls[k].ok
        /\ \A k \in PruneDeleteCalls :
             calls[k].ok => /\ ~remote[calls[k].id].alive
                            /\ calls[k].was.handle \notin DOMAIN cache.map
        /\ summary_total.pruned = Cardinality({k \in PruneDeleteCalls : calls[k].ok})

C6_Witness ==
    /\ PruneReturned
    /\ cache.loaded
    /\ summary_total.pruned = 1
    /\ \E j, k \in PruneDeleteCalls : j < k /\ ~calls[j].ok /\ calls[k].ok

\* C7: a second run on the same batch, after a first run that completed without
\* remote errors, issues no create, delete or update call and counts every group as
\* skipped.
C7_SecondRunIdle ==
    run_no = 2 =>
        /\ \A k \in MutatingCalls : calls[k].phase # "reconcile"
        /\ pc = "done" => /\ summary_total.created = 0
                          /\ summary_total.recreated = 0
                          /\ summary_total.updated = 0

Tallied(sm) == sm.created + sm.recreated + sm.updated + sm.skipped

InGroup ==
    pc \in {"group", "lookup", "rename", "redirect", "resolve", "create", "attach_image",
            "fetch", "addtag", "delete", "recreate", "upd_variants", "upd_inventory",
            "upd_inv_set", "upd_image", "upd_placeholder", "upd_product"}

\* the processing of the current CSV has ended, by return or by an error that left
\* process_csv_hybrid while a group was reconciled
CsvEnded ==
    \/ pc = "file_end"
    \/ pc = "aborted" /\ calls[Len(calls)].phase = "reconcile"

\* C8: every group of a CSV increments exactly one of created, recreated, updated,
\* skipped on every path, remote errors included: while the CSV is processed the four
\* counters add up to the number of groups finished, and to the number of groups of
\* the CSV once its processing has ended.
C8_OneCounterPerGroup ==
    /\ InGroup => Tallied(summary) = grp_idx - 1
    /\ CsvEnded => Tallied(summary) = Len(files[file_idx])

\* C9: a remote-call failure while a group is reconciled (identity resolution with
\* the first cache scan, snapshot fetch, execute step) never aborts the run.
C9_GroupIsolation ==
    pc = "aborted" => calls[Len(calls)].phase # "reconcile"

\* C10: a dry run issues no mutating remote call, and the pruner issues no delete
\* when prune is disabled or dry-run is set.
C10_DryRunMutatesNothing ==
    /\ args.dry_run => MutatingCalls = {}
    /\ (args.dry_run \/ args.disable_prune) => PruneDeleteCalls = {}

C10_Witness ==
    /\ args.dry_run
    /\ pc = "done"
    /\ summary_total.skipped = 2
    /\ \E i \in Ids : /\ remote[i].alive /\ remote[i].handle \notin current_handles
                      /\ ScraperTagged(remote[i]) /\ remote[i].status = "active"
                      /\ ~Ignored(remote[i]) /\ ~DraftLockedProduct(remote[i])
    /\ \E f \in DOMAIN files : \E k \in DOMAIN files[f] :
          files[f][k][1].handle \notin RemoteHandles(remote)

\* the reconciler's calls that deleted a product and were followed by the create of
\* its replacement
Recreations ==
    {k \in DOMAIN calls :
        /\ calls[k].op = "delete_product" /\ calls[k].phase = "reconcile" /\ calls[k].ok
        /\ k < Len(calls)
        /\ calls[k + 1].op = "post_product" /\ calls[k + 1].ok}

\* C11: a draft lock has priority over the local batch: a product that was not active
\* and draft-locked when the reconciler wrote to it is not active afterwards, and the
\* replacement a RECREATE builds for a draft-locked product has status draft and the
\* keep-draft tag, whatever the local row says.
C11_DraftLockPriority ==
    /\ \A k \in MutatingCalls :
         (/\ calls[k].phase = "reconcile" /\ calls[k].was.alive
          /\ DraftLockedProduct(calls[k].was) /\ calls[k].was.status # "active"
          /\ remote[calls[k].id].alive)
            => remote[calls[k].id].status # "active"
    /\ \A k \in Recreations :
         (DraftLockedProduct(calls[k].was) /\ remote[calls[k + 1].id].alive)
            => /\ remote[calls[k + 1].id].status = "draft"
               /\ KEEP_DRAFT_TAG \in remote[calls[k + 1].id].tags

C11_Witness ==
    \E k \in Recreations :
        /\ DraftLockedProduct(calls[k].was)
        /\ remote[calls[k + 1].id].alive
        /\ remote[calls[k + 1].id].status = "draft"
        /\ \E f \in DOMAIN files : \E n \in DOMAIN files[f] :
              /\ files[f][n][1].status = "active"
              /\ files[f][n][1].handle = remote[calls[k + 1].id].handle

\* the descriptions of the model that keep something once <br>, empty <p>/<div>,
\* &nbsp; and whitespace are removed
HasRealContent(html) == html \in {"old", "d"}

ReconcileWrites ==
    {k \in MutatingCalls : calls[k].phase = "reconcile" /\ calls[k].ok /\ calls[k].was.alive}

\* C12: a remote description with real content is never replaced by the local one:
\* an update writes body_html only when the remote description is empty and the
\* local one is not, a product written to keeps its real description, and the
\* replacement a RECREATE builds carries the real description of the deleted product.
C12_DescriptionKept ==
    /\ \A k \in DOMAIN calls :
         (calls[k].op = "put_product" /\ "body_html" \in calls[k].fields)
            => /\ ~HasRealContent(calls[k].was.body_html)
               /\ HasRealContent(files[1][1][1].description)
    /\ \A k \in ReconcileWrites :
         (HasRealContent(calls[k].was.body_html) /\ remote[calls[k].id].alive)
            => remote[calls[k].id].body_html = calls[k].was.body_html
    /\ \A k \in Recreations :
         (HasRealContent(calls[k].was.body_html) /\ remote[calls[k + 1].id].alive)
            => remote[calls[k + 1].id].body_html = calls[k].was.body_html

C12_Witness ==
    \E k \in Recreations :
        /\ calls[k].was.body_html = "old"
        /\ files[1][1][1].description = "d"
        /\ remote[calls[k + 1].id].alive
        /\ remote[calls[k + 1].id].body_html = "old"

\* an option value of the model, trimmed and lower-cased
TrimLower(o) ==
    CASE o \in {"M", "m", "m ", " M"} -> "m"
      [] o \in {"L", "l"} -> "l"
      [] OTHER -> o

OptionSet(vs) == {TrimLower(vs[i].option1) : i \in DOMAIN vs}
OptionCount(vs, o) == Cardinality({i \in DOMAIN vs : TrimLower(vs[i].option1) = o})

\* the structure test has just been applied to the snapshot and the local rows
StructureDecided == pc \in {"delete", "upd_variants"} /\ g.vi = 0
RemoteVariants == g.shopify_product.variants
LocalRows == files[file_idx][grp_idx]

\* C13 as stated: compare_variants_structure returns true exactly when the variant
\* counts differ or the sets of trimmed, lower-cased option values differ.
C13_StructureBySet ==
    StructureDecided =>
        ((pc = "delete") <=> \/ Len(RemoteVariants) # Len(LocalRows)
                             \/ OptionSet(RemoteVariants) # OptionSet(LocalRows))

\* C13 amended: compare_variants_structure returns true exactly when the variant
\* counts differ or some trimmed, lower-cased option value occurs a different number
\* of times on the two sides; SKU or barcode differences alone never make it true.
C13_StructureByMultiset ==
    StructureDecided =>
        ((pc = "delete") <=>
            \/ Len(RemoteVariants) # Len(LocalRows)
            \/ \E o \in OptionSet(RemoteVariants) \cup OptionSet(LocalRows) :
                  OptionCount(RemoteVariants, o) # OptionCount(LocalRows, o))

C13_Witness ==
    /\ pc = "delete"
    /\ Len(RemoteVariants) = Len(LocalRows)
    /\ OptionSet(RemoteVariants) = OptionSet(LocalRows)
    /\ \E i \in DOMAIN LocalRows : LocalRows[i].option1 = "m "

\* an option value with its letters lower-cased
CaseFold(o) ==
    CASE o = "M" -> "m"
      [] o = "L" -> "l"
      [] OTHER -> o

SameValues(v, row) ==
    /\ v.price = row.price /\ v.compare_at_price = row.compare
    /\ v.sku = row.sku /\ v.barcode = row.barcode
    /\ v.inventory_quantity = row.inventory

\* the remote variants and the local rows pair one to one by option value up to
\* letter case, and every pair has equal values
CaseOnly(vs, rows) ==
    /\ Len(vs) = Len(rows)
    /\ \A i, j \in DOMAIN vs : i # j => CaseFold(vs[i].option1) # CaseFold(vs[j].option1)
    /\ \A i \in DOMAIN vs : \E j \in DOMAIN rows :
          CaseFold(vs[i].option1) = CaseFold(rows[j].option1) /\ SameValues(vs[i], rows[j])

SameProductFields(p, row) ==
    p.title = row.title /\ p.body_html = row.description /\ row.image = ""

Snapshots == {k \in DOMAIN calls : calls[k].op = "get_product" /\ calls[k].ok}

\* C14: when the remote variants and the local rows differ only in the letter case
\* of their option values and every pair has equal price, compare-at price, SKU,
\* barcode and inventory, no recreate and no variant, inventory or product write
\* (the tags included) is issued; with equal title, description and no local image
\* the group is counted as skipped and no image write is issued either.
C14_CaseInsensitivePairing ==
    \A k \in Snapshots :
        CaseOnly(calls[k].was.variants, LocalRows) =>
            /\ \A j \in DOMAIN calls :
                 calls[j].op \notin {"delete_product", "post_product", "put_variant",
                                     "post_inventory", "put_tags"}
            /\ SameProductFields(calls[k].was, LocalRows[1]) =>
                 /\ \A j \in DOMAIN calls :
                      calls[j].op \notin {"put_product", "post_image", "delete_image"}
                 /\ pc = "file_end" => summary.skipped = 1

VariantWrote(f) ==
    \E j \in DOMAIN calls : calls[j].op = "put_variant" /\ f \in calls[j].fields

\* C15: with prices as exact amounts in cents, a paired variant gets a price write
\* exactly when its price differs by one cent or more, and a compare-at write exactly
\* when its compare-at price differs by one cent or more.
C15_PriceTolerance ==
    pc = "file_end" =>
        \A k \in Snapshots :
            (/\ Len(calls[k].was.variants) = 1 /\ Len(LocalRows) = 1
             /\ CaseFold(calls[k].was.variants[1].option1) = CaseFold(LocalRows[1].option1))
            => /\ VariantWrote("price")
                    <=> Abs(calls[k].was.variants[1].price - LocalRows[1].price) >= 1
               /\ VariantWrote("compare_at_price")
                    <=> Abs(calls[k].was.variants[1].compare_at_price
                            - LocalRows[1].compare) >= 1

ProductPosts == {k \in DOMAIN calls : calls[k].op = "post_product"}

\* the group was resolved by handle after no lookup by key had found a product, and
\* the cache held no product for the handle
NothingResolved ==
    /\ \E k \in DOMAIN calls : calls[k].op = "list_products" /\ calls[k].ok
    /\ \A k \in DOMAIN calls : calls[k].op # "get_product"

\* C16: when no remote product resolves for the group, exactly one product create
\* call is issued; when it succeeds the group is counted as created, the cache maps
\* the handle to the new identifier and the handle is in the processed-handle set.
C16_CreateWhenAbsent ==
    (pc = "file_end" /\ NothingResolved) =>
        /\ Cardinality(ProductPosts) = 1
        /\ \A k \in ProductPosts :
             calls[k].ok => /\ summary.created = 1
                            /\ remote[calls[k].id].alive
                            /\ CacheGet(cache.map, LocalRows[1].handle) = calls[k].id
                            /\ LocalRows[1].handle \in processed_handles

C16_Witness ==
    /\ pc = "file_end"
    /\ NothingResolved
    /\ summary.created = 1
    /\ \E k \in ProductPosts : calls[k].ok /\ remote[calls[k].id].images # <<>>
    /\ processed_handles = {"h1"}

\* the local row a remote variant is paired with (by option value, trimmed and
\* lower-cased), as a set: empty when the variant has no local row
PairedRows(v) ==
    {j \in DOMAIN LocalRows : TrimLower(LocalRows[j].option1) = TrimLower(v.option1)}

RowField(row, f) ==
    CASE f = "price" -> row.price
      [] f = "compare_at_price" -> row.compare
      [] f = "sku" -> row.sku
      [] f = "barcode" -> row.barcode
      [] f = "inventory_quantity" -> row.inventory
      [] f = "title" -> row.title
      [] f = "body_html" -> row.description

\* C17: an update touches only what differs: every variant write, inventory write
\* and product write of update_product_smart targets an item that differs between
\* the remote product and the local rows, and carries only fields that differ.
C17_UpdateOnlyDiff ==
    \A k \in DOMAIN calls :
        /\ calls[k].op \in {"put_variant", "post_inventory"} =>
             /\ calls[k].fields # {}
             /\ \A j \in PairedRows(calls[k].was.variants[calls[k].item]) :
                  \A f \in calls[k].fields :
                     calls[k].was.variants[calls[k].item][f] # RowField(LocalRows[j], f)
        /\ calls[k].op = "put_product" =>
             /\ calls[k].fields # {}
             /\ \A f \in calls[k].fields : calls[k].was[f] # RowField(LocalRows[1], f)

\* C18: when the group is counted as skipped, no mutating remote call was issued
\* while it was processed; stated for the groups that met no remote error, whose
\* skip is the classification of the group (ignore-flagged, archived, no change).
C18_SkipMutatesNothing ==
    (pc = "file_end" /\ summary.skipped = 1 /\ \A k \in DOMAIN calls : calls[k].ok)
        => MutatingCalls = {}

\* the resolve by handle has returned, after a scan with or without status parameters
Resolved(by_status) ==
    /\ pc \in {"create", "fetch"}
    /\ by_status <=> \E k \in DOMAIN calls :
                        calls[k].op = "list_products" /\ calls[k].fields # {}

FoundWhenPresent ==
    \A i \in Ids :
        (remote[i].alive /\ remote[i].handle = g.handle)
            => g.existing_id = i /\ CacheGet(cache.map, g.handle) = i

\* C19: the first resolve finds a remote product with the local handle whatever its
\* status is (active, draft or archived), for either behaviour of a listing that
\* names no status.
C19_CacheFindsAnyStatus == Resolved(FALSE) => FoundWhenPresent

\* the same statement for the scan of upload_shopify_original.py
ByStatusFindsAnyStatus == Resolved(TRUE) => FoundWhenPresent

ScanCalls ==
    {k \in DOMAIN calls : calls[k].op = "list_products" /\ calls[k].phase = "reconcile"}

\* C20: a run issues at most one scan of the remote catalog for the cache; once the
\* cache is loaded, even with zero products, no step issues another listing call for
\* it, and the cache stays loaded.
C20_OneScanPerRun ==
    /\ [](Cardinality(ScanCalls) <= 1)
    /\ [][cache.loaded => /\ cache'.loaded
                          /\ ScanCalls' = ScanCalls]_vars

\* the scan found no product, the first group's create failed, and the second group
\* was resolved from the empty cache
C20_Witness ==
    /\ Cardinality(ScanCalls) = 1
    /\ cache.loaded
    /\ cache.map = EmptyMap
    /\ grp_idx + file_idx > 2
    /\ pc = "create"

\* between two groups, between two CSVs, or after the run and its prune
AtBoundary == pc \in {"group", "file_end", "file_start", "run_prune", "report", "done"}

\* every entry of the cache names a remote product with that handle and identifier
CacheSound ==
    \A h \in DOMAIN cache.map :
        /\ cache.map[h] \in DOMAIN remote
        /\ remote[cache.map[h]].alive
        /\ remote[cache.map[h]].handle = h

\* the products the run created are in the cache, those it deleted are not
CacheReflectsRun ==
    \A k \in DOMAIN calls :
        /\ (calls[k].op = "post_product" /\ calls[k].ok /\ remote[calls[k].id].alive)
               => CacheGet(cache.map, remote[calls[k].id].handle) = calls[k].id
        /\ (calls[k].op = "delete_product" /\ calls[k].ok)
               => CacheGet(cache.map, calls[k].was.handle) # calls[k].id

\* C21: once the cache is loaded, at every group boundary and after prune each cache
\* entry names an existing remote product with that handle and identifier, and the
\* products created or deleted by the run are reflected in the cache.
C21_CacheConsistent ==
    (cache.loaded /\ AtBoundary) => (CacheSound /\ CacheReflectsRun)

Renames == {k \in DOMAIN calls : calls[k].op = "put_handle"}

\* the handle a rename call asked for
NewHandle(k) == CHOOSE h \in calls[k].fields : TRUE

Recorded == processed_handles \cup current_handles

C22_WitnessFailed ==
    /\ AtBoundary
    /\ \E k \in Renames : ~calls[k].ok

\* the products one of whose variants carries the key
ByBarcode(b) ==
    {i \in DOMAIN remote : remote[i].alive /\ b # ""
        /\ \E v \in DOMAIN remote[i].variants : remote[i].variants[v].barcode = b}

BySku(sku) ==
    {i \in DOMAIN remote : remote[i].alive /\ sku # ""
        /\ \E v \in DOMAIN remote[i].variants : remote[i].variants[v].sku = sku}

\* the secondary-key lookup of the group has just answered without error
LookedUp ==
    /\ calls # <<>>
    /\ calls[Len(calls)].op = "graphql_lookup"
    /\ \A k \in DOMAIN calls : calls[k].ok

\* C23: when the lookups answer, a product matching the barcode is the identity; if
\* none matches the barcode, a product matching the SKU is; the group turns to the
\* handle only when neither key matches.
C23_ResolutionOrder ==
    LookedUp =>
        LET bm == ByBarcode(LocalRows[1].barcode)
            sm == BySku(LocalRows[1].sku)
        IN /\ bm # {} => g.existing_id \in bm
           /\ (bm = {} /\ sm # {}) => g.existing_id \in sm
           /\ pc = "resolve" => (bm = {} /\ sm = {})

\* the calls that read from the remote
ReadOps == {"graphql_lookup", "list_products", "get_product", "get_locations"}

\* C24: a read that failed after its retries gives its caller an error: it is the
\* last call of its group, which does not go on with an empty answer in its place.
C24_FailureIsError ==
    \A k \in DOMAIN calls :
        (calls[k].op \in ReadOps /\ ~calls[k].ok) => k = Len(calls)

ClientError(st) == st >= 400 /\ st < 500 /\ st # 429

HttpAttempts == Len(http.responses)

\* C25: an answer with a 4xx status other than 429 ends the call of shopify_request or
\* shopify_graphql with an error: no HTTP attempt follows it, so when it is the first
\* answer the call made exactly one attempt.
C25_ClientErrorNotRetried ==
    \A i \in DOMAIN http.responses :
        ClientError(http.responses[i].status)
            => (i = HttpAttempts /\ http.result = "raised")

\* a 404 was the first answer and the call raised after that one attempt
C25_Witness ==
    /\ HttpAttempts = 1
    /\ http.responses[1].status = 404
    /\ http.result = "raised"

LastStatus == http.responses[HttpAttempts].status

\* C26: a call of shopify_request makes at most MAX_RETRIES HTTP attempts and ends:
\* it returns an answer with a status below 400 or raises, and when the last
\* allowed attempt is answered by a rate limit or a 5xx it raises.
C26_RequestTerminates ==
    /\ [](http.fn = "request" =>
            /\ HttpAttempts <= MAX_RETRIES
            /\ http.result \in {"running", "returned", "raised"}
            /\ http.result = "returned" =>
                    (HttpAttempts >= 1 /\ LastStatus # 0 /\ LastStatus < 400)
            /\ (HttpAttempts = MAX_RETRIES /\ (LastStatus = 429 \/ LastStatus >= 500))
                    => http.result # "returned")
    /\ (http.fn = "request") ~> (http.result \in {"returned", "raised"})

\* three rate limits in a row, then the error
C26_Witness ==
    /\ http.fn = "request"
    /\ HttpAttempts = MAX_RETRIES
    /\ \A i \in DOMAIN http.responses : http.responses[i].status = 429
    /\ http.result = "raised"

Deletes ==
    {k \in DOMAIN calls : calls[k].op = "delete_product" /\ calls[k].phase = "reconcile"}

\* no remote product and no cache entry under the handle
Absent(h) == h \notin RemoteHandles(remote) /\ CacheGet(cache.map, h) = NoId

\* C27: in a RECREATE no create precedes the delete.  A failed delete ends the group:
\* no create follows, the product is as it was, the group is skipped.  After a
\* successful delete the cache entry is gone before the create is issued; if that
\* create fails it is the group's last call, the product stays absent, the cache has
\* no entry for the handle and the group is counted as skipped.
C27_RecreateOrder ==
    \A k \in Deletes :
        LET id == calls[k].id
            h == calls[k].was.handle
        IN /\ \A j \in 1..(k - 1) : calls[j].op # "post_product"
           /\ ~calls[k].ok =>
                /\ k = Len(calls)
                /\ remote[id] = calls[k].was
                /\ summary.skipped = 1 /\ Tallied(summary) = 1
           /\ calls[k].ok =>
                /\ ~remote[id].alive
                /\ k = Len(calls) => (pc = "recreate" /\ Absent(h))
                /\ k < Len(calls) => calls[k + 1].op = "post_product"
                /\ (k < Len(calls) /\ ~calls[k + 1].ok) =>
                        /\ k + 1 = Len(calls)
                        /\ Absent(h)
                        /\ summary.skipped = 1 /\ Tallied(summary) = 1

\* the delete succeeded with the cache loaded, the create failed, the group ended
C27_Witness ==
    /\ cache.loaded
    /\ \E k \in Deletes : calls[k].ok /\ k < Len(calls) /\ ~calls[k + 1].ok
    /\ pc = "file_end"

\* the delete failed
C27_WitnessDeleteFailed == \E k \in Deletes : ~calls[k].ok

FailedAttaches == {k \in DOMAIN calls : calls[k].op = "post_image" /\ ~calls[k].ok}

\* the group ended, an image could not be attached, and nothing else failed
OnlyImageFailed ==
    /\ pc = "file_end"
    /\ FailedAttaches # {}
    /\ \A k \in DOMAIN calls : calls[k].ok \/ calls[k].op = "post_image"

Did(ops) == \E k \in DOMAIN calls : calls[k].op \in ops /\ calls[k].ok

\* C28: the failed-image report grows by exactly one entry for each image that could
\* not be attached, and the group is counted by what else happened to it: created
\* or recreated after a successful create, updated when a variant, inventory or
\* product write was made, skipped otherwise, never as an image update.
C28_ImageFailureKept ==
    /\ failed_images = Cardinality(FailedAttaches)
    /\ OnlyImageFailed =>
        /\ Tallied(summary) = 1
        /\ summary.updated_imagen = 0
        /\ IF Did({"post_product"})
           THEN IF Did({"delete_product"}) THEN summary.recreated = 1
                ELSE summary.created = 1
           ELSE summary.updated = 1
                    <=> Did({"put_variant", "post_inventory", "put_product"})

\* an image failed on a created product and the group was counted as created
C28_Witness ==
    /\ OnlyImageFailed
    /\ summary.created = 1
    /\ failed_images = 1

\* an image failed in an update that changed something else
C28_WitnessUpdate ==
    /\ OnlyImageFailed
    /\ summary.updated = 1

\* an image failed in an update that changed nothing else
C28_WitnessSkip ==
    /\ OnlyImageFailed
    /\ summary.skipped = 1

\* add_image_to_product reports a failure once, when it gives up, and never otherwise
ImageReportedOnce ==
    http.fn = "image" =>
        /\ (http.result = "false" /\ pc = "call") => failed_images = 1
        /\ http.result \in {"running", "true"} => failed_images = 0
        /\ Len(http.responses) <= IMAGE_RETRIES

\* C29: an interrupt ends the run only between two groups: no group is left with its
\* reconciliation begun and not finished.
C29_InterruptAtBoundary == pc = "interrupted" => g = G0

\* the run ended between the delete and the create of a RECREATE
C29_RecreateCut ==
    /\ pc = "interrupted"
    /\ calls # <<>>
    /\ calls[Len(calls)].op = "delete_product"
    /\ calls[Len(calls)].ok

Unconfigured == ~creds.domain \/ ~creds.token

\* C30: without the shop domain or the access token, run() raises before it looks
\* for a CSV and before any remote call.
C30_ConfigErrorFirst ==
    Unconfigured =>
        /\ calls = <<>>
        /\ file_idx = 0
        /\ pc \in {"run_start", "aborted"}

\* a run with a domain and no token has raised
C30_Witness ==
    /\ creds.domain /\ ~creds.token
    /\ files # <<>>
    /\ pc = "aborted"

NoRepeat(q) == \A i, j \in DOMAIN q : i # j => q[i] # q[j]

\* C31: the tag list of every product specification posted by a CREATE or a
\* RECREATE holds the scraper tag and holds no tag twice.
C31_TagsDeduplicated ==
    \A k \in DOMAIN calls :
        calls[k].op = "post_product"
            => (SCRAPER_TAG \in SeqToSet(calls[k].sent) /\ NoRepeat(calls[k].sent))

\* a RECREATE of a draft product from a Tags cell that names the scraper tag and
\* repeats a tag
C31_Witness ==
    /\ \E t \in {<<SCRAPER_TAG, SCRAPER_TAG>>, <<"x", " x">>} : LocalRows[1].tags = t
    /\ \E k \in DOMAIN calls :
        /\ calls[k].op = "post_product" /\ calls[k].ok
        /\ k > 1 /\ calls[k - 1].op = "delete_product"
        /\ KEEP_DRAFT_TAG \in SeqToSet(calls[k].sent)

\* C32: every HTTP request of shopify_request and shopify_graphql is followed by a
\* wait before the next request can be issued, by the same call or, once the call
\* has returned or raised, by its caller.
C32_Throttle ==
    http.fn \in {"request", "graphql"}
        => \A i \in DOMAIN http.waits : http.waits[i] # "none"

\* ---------------------------------------------------------------- report of images
\* two CSVs: a product, a second handle with the same barcode, the first handle again
SharedBarcodeBatch == <<<<GB>>, <<GC, GA>>>>

\* one run with room for a second failed call: the batches whose first group carries
\* an image, and the batch of the shared barcode
ReportBatches ==
    {fs \in BatchUniverse : fs # <<>> /\ fs[1] # <<>> /\ fs[1][1] = GC}
    \cup {SharedBarcodeBatch}

InitReport == InitRunOn(MaxFailures + 1, {AllCreds}, ReportBatches)

SpecReport == InitReport /\ [][Next]_vars

\* the run is over: run() returned or an error left it
RunOver == pc \in {"done", "aborted"}

\* C33: when the run is over, failed_images_report.csv was written once if an image
\* attachment failed during the run, and not at all otherwise, also when a later
\* step of the run ended with an error
C33_ReportIffFailed ==
    RunOver => /\ report <= 1
               /\ (report = 1) <=> (failed_images > 0)

\* the report is right for every run that run() returns from
C33_ReportOnReturn ==
    pc = "done" => /\ report <= 1
                   /\ (report = 1) <=> (failed_images > 0)

\* ---------------------------------------------------------------- the pruner's guard
\* the calls the pruner made
PruneCalls == {k \in DOMAIN calls : calls[k].phase = "prune"}

\* the pruner is running or has run
PrunerInvoked == pc \in {"prune_entry", "prune_delete"} \/ PruneCalls # {}

\* C34: the pruner is invoked only with a non-empty set of processed handles; a run
\* whose CSVs yield no group (no file, or files without a row that has a handle)
\* never invokes it and deletes no remote product
C34_NoPruneOnEmptyBatch ==
    /\ PrunerInvoked => current_handles # {}
    /\ NumGroups(files) = 0 =>
          /\ ~PrunerInvoked
          /\ calls = <<>>

\* a run over one CSV without groups returned, prune enabled and no dry run, while the
\* catalog holds a scraper product the pruner would delete for an empty handle set
C34_Witness ==
    /\ pc = "done"
    /\ files = << <<>> >>
    /\ ~args.disable_prune /\ ~args.dry_run
    /\ \E i \in list_scraper_products(remote) : ~PruneKeeps(remote[i], {})

\* ---------------------------------------------------------------- processed handles
\* this step ends a group of the current file
GroupFinishes ==
    /\ pc \notin {"run_start", "file_start", "file_end", "run_prune", "prune_entry",
                  "prune_delete", "report", "done", "aborted"}
    /\ pc' \in {"group", "file_end"}

\* the handles line 1198 may add for the current group: the handle of its rows, or the
\* handle the resolved product had before the rename
GroupHandles == {Rows[1].handle} \cup (IF g.old_handle # "" THEN {g.old_handle} ELSE {})

\* the calls whose error leaves the group through the except of line 1194: the errors
\* of the rename, the redirect, the tag, the images and the lookup are swallowed where
\* they occur and the group goes on
RaisingOps == {"get_product", "delete_product", "put_variant", "post_inventory",
               "put_product"}

\* the products whose group ended with a remote error in this run
FailedProducts ==
    {calls[k].id : k \in {j \in DOMAIN calls : /\ calls[j].phase = "reconcile"
                                                /\ ~calls[j].ok
                                                /\ calls[j].op \in RaisingOps
                                                /\ calls[j].id # NoId}}

\* the products the pruner deleted in this run
Pruned == {calls[k].id : k \in {j \in PruneCalls : /\ calls[j].op = "delete_product"
                                                    /\ calls[j].ok}}

\* a finished group adds exactly one handle, its local handle or the old remote one,
\* and nothing else changes the set within a file
C35_OneHandlePerGroup ==
    [][/\ GroupFinishes =>
            \E h \in GroupHandles : processed_handles' = processed_handles \cup {h}
       /\ (~GroupFinishes /\ pc # "file_start") =>
            processed_handles' = processed_handles]_vars

\* no product on which a reconcile call failed is deleted by the pruner of the run
C35_FailedNotPruned == FailedProducts \cap Pruned = {}

\* the handles of the groups of the local batch
BatchHandles ==
    UNION {{files[f][n][1].handle : n \in DOMAIN files[f]} : f \in DOMAIN files}

\* when the pruner starts, every live product a reconcile call failed on carries a
\* recorded handle
C35_FailedRecorded ==
    pc = "prune_entry" =>
        \A i \in FailedProducts : remote[i].alive => remote[i].handle \in current_handles

\* C35: every finished group adds exactly one handle to processed_handles, the handle
\* of its rows or the previous handle of the product it resolved to, whatever its
\* outcome; and a product on which a reconcile call failed in this run is not deleted
\* by the pruner of the same run
C35_HandleRecorded ==
    /\ C35_OneHandlePerGroup
    /\ [](C35_FailedNotPruned /\ C35_FailedRecorded)

\* the pruner deleted a product and spared a scraper product, not otherwise protected,
\* on which the PUT of the new handle had failed and which kept its old handle
C35_Witness ==
    /\ pc = "done"
    /\ Pruned # {}
    /\ \E k \in DOMAIN calls :
          /\ calls[k].op = "put_handle" /\ ~calls[k].ok
          /\ remote[calls[k].id].alive
          /\ ~PruneKeeps(remote[calls[k].id], {})
          /\ SCRAPER_TAG \in remote[calls[k].id].tags
          /\ remote[calls[k].id].handle \notin BatchHandles

\* ---------------------------------------------------------------- prune and the batch
\* C36: with prune enabled, no scraper product whose handle is the handle of a group
\* of the local batch is deleted by the pruner of the run, also when that group was
\* resolved by barcode or SKU to another product and its rename fell back to the old
\* handle after a collision
C36_LocalHandleNotPruned ==
    \A k \in PruneCalls :
        calls[k].op = "delete_product" => calls[k].was.handle \notin BatchHandles

\* the pruner deletes no product whose handle was recorded by the groups
C36_RecordedNotPruned ==
    \A k \in PruneCalls :
        calls[k].op = "delete_product" => calls[k].was.handle \notin current_handles

\* no remote failure but the collision of the rename: the group was resolved by barcode
\* to another product, kept that product's handle, and the pruner deleted the scraper
\* product that carries the group's own handle
C36_CollisionPruned ==
    /\ faults = MaxFailures
    /\ \E j \in DOMAIN calls : calls[j].op = "put_handle" /\ ~calls[j].ok
    /\ \E k \in PruneCalls :
          /\ calls[k].op = "delete_product" /\ calls[k].ok
          /\ calls[k].was.handle \in BatchHandles
          /\ SCRAPER_TAG \in calls[k].was.tags

\* ---------------------------------------------------------------- creates and deletes
\* this step issues POST products.json
PostStep ==
    /\ Len(calls') = Len(calls) + 1
    /\ calls'[Len(calls')].op = "post_product"

\* the last call was a successful delete of the product the group resolved to
JustDeleted ==
    /\ calls # <<>>
    /\ calls[Len(calls)].op = "delete_product"
    /\ calls[Len(calls)].phase = "reconcile"
    /\ calls[Len(calls)].ok
    /\ calls[Len(calls)].id = g.existing_id

\* the products the run created
Posts == {k \in DOMAIN calls : calls[k].op = "post_product" /\ calls[k].ok}

\* C37: the reconciler posts a product only when the group resolved to no remote
\* product, or right after a successful delete of the resolved product in the same
\* group; the resolved product never exists at that moment, and one group makes at
\* most one product
C37_CreateOnlyWhenAbsent ==
    /\ [][PostStep =>
            /\ g.existing_id = NoId \/ JustDeleted
            /\ g.existing_id # NoId => ~remote[g.existing_id].alive
            /\ Posts = {}]_vars
    /\ [](Cardinality(Posts) <= 1)

\* the group deleted the product it resolved to and then created its replacement
C37_Witness ==
    /\ pc = "file_end"
    /\ \E k \in Posts : /\ k > 1
                         /\ calls[k - 1].op = "delete_product" /\ calls[k - 1].ok
                         /\ ~remote[calls[k - 1].id].alive
                         /\ remote[calls[k].id].alive

\* the group resolved to nothing and created its product
C37_WitnessCreate ==
    /\ pc = "file_end"
    /\ Posts # {}
    /\ \A k \in DOMAIN calls : calls[k].op # "delete_product"

\* the snapshot a successful fetch of product id returned before call k
Fetched(k) ==
    {calls[j].was : j \in {i \in 1..(k - 1) : /\ calls[i].op = "get_product"
                                               /\ calls[i].ok
                                               /\ calls[i].id = calls[k].id}}

C38_WitnessMatch ==
    /\ pc = "file_end"
    /\ summary.updated = 1
    /\ Deletes = {}
    /\ \E k \in DOMAIN calls : calls[k].op = "get_product" /\ calls[k].ok

\* ---------------------------------------------------------------- image upload loop
\* add_image_to_product returned
ImageReturned == http.fn = "image" /\ http.result \in {"true", "false"}

\* the attempts that end the loop: a success, or a 422 / invalid image
ImageFinal == {"ok", "invalid"}

\* what holds of one call of add_image_to_product at every moment
ImageLoopSound ==
    /\ Len(http.responses) <= IMAGE_RETRIES
    /\ \A k \in 1..(Len(http.responses) - 1) : http.responses[k] \notin ImageFinal
    /\ http.result = "true" =>
          http.responses # <<>> /\ http.responses[Len(http.responses)] = "ok"
    /\ (http.responses # <<>> /\ http.responses[Len(http.responses)] \in ImageFinal) =>
          ImageReturned
    /\ (http.result = "false" /\ pc = "call") => failed_images = 1
    /\ http.result # "false" => failed_images = 0

\* C40: add_image_to_product terminates; it makes at most max_retries attempts, makes
\* none after the first success or the first invalid-image failure, returns true only
\* when an attempt succeeded, and every false return of a call that was given a product
\* id and a URL has appended exactly one report entry
C40_ImageLoop == []ImageLoopSound /\ <>ImageReturned

\* every one of the max_retries attempts failed with a retryable error and the call
\* returned false with its one report entry
C40_Witness ==
    /\ pc = "call"
    /\ http.result = "false"
    /\ Len(http.responses) = IMAGE_RETRIES
    /\ \A k \in DOMAIN http.responses : http.responses[k] \in {"error", "exception"}
    /\ failed_images = 1

\* the third attempt was refused as an invalid image and ended the call
C40_WitnessInvalid ==
    /\ http.result = "false"
    /\ Len(http.responses) = 3
    /\ http.responses[3] = "invalid"
    /\ failed_images = 1

\* ---------------------------------------------------------------- paginated scans
\* One call of _load_existing_products_cache or of list_scraper_products against a
\* catalog that does not change meanwhile: each step is one GET of products.json and
\* the handling of its page.  Product i has handle number i (handles are unique and
\* never empty on the remote); identifiers are positive.
PAGE_LIMIT == 2

MaxScan == 5

\* the catalogs of a scan: any set of identifiers, any part of it tagged as scraper's
ScanCatalogs ==
    {[catalog |-> c, tagged |-> t] : c \in SUBSET (1..MaxScan), t \in SUBSET (1..MaxScan)}

RECURSIVE FirstIds(_, _)
\* the first n identifiers of S in increasing order
FirstIds(S, n) ==
    IF n = 0 \/ S = {} THEN <<>>
    ELSE LET m == CHOOSE x \in S : \A y \in S : x <= y
         IN <<m>> \o FirstIds(S \ {m}, n - 1)

\* GET products.json?limit=..&since_id=..: no since_id is sent while last_id is falsy
Page(catalog, last_id) == FirstIds({i \in catalog : i > last_id}, PAGE_LIMIT)

\* the loop stops after every page
last_page_always(data) == Len(data) <= PAGE_LIMIT

\* lines 308-309 and 913-914: if not last_id or len(data) < limit: break
last_page(data) == data[Len(data)] = 0 \/ Len(data) < PAGE_LIMIT

\* products.setdefault(handle, id) for the cache, products[handle] = {...} for the
\* scraper listing, the latter only when the tags hold SCRAPER_TAG
record_page(fn, products, tagged, data) ==
    LET keep == {data[k] : k \in {j \in DOMAIN data : fn = "cache" \/ data[j] \in tagged}}
        fresh == {i \in keep : \A q \in products : q[1] # i}
    IN IF fn = "cache"
       THEN products \cup {<<i, i>> : i \in fresh}
       ELSE {q \in products : q[1] \notin keep} \cup {<<i, i>> : i \in keep}

\* one iteration of the while loop of either function
ScanPage ==
    /\ scan.result = "running"
    /\ \E ok \in Outcomes :
        LET data == Page(scan.catalog, scan.last_id)
        IN /\ faults' = Spend(ok)
           /\ scan' = IF ~ok
                       THEN [scan EXCEPT !.requests = @ + 1, !.result = "raised"]
                       ELSE IF data = <<>>
                       THEN [scan EXCEPT !.requests = @ + 1, !.result = "returned"]
                       ELSE [scan EXCEPT
                               !.requests = @ + 1,
                               !.seen = @ \o data,
                               !.products = record_page(scan.fn, @, scan.tagged, data),
                               !.last_id = data[Len(data)],
                               !.result = IF last_page(data) THEN "returned"
                                          ELSE "running"]
    /\ UNCHANGED <<remote, next_id, cache, locs, failed_images, files, args, pc, file_idx,
                   grp_idx, g, summary, processed_handles, summary_total,
                   current_handles, to_delete, deleted, calls, run_no, listing,
                   http, creds, report>>

InitScan ==
    /\ \E fn \in {"cache", "scraper"}, c \in ScanCatalogs :
          /\ c.tagged \subseteq c.catalog
          /\ scan = [NoScan EXCEPT !.fn = fn, !.catalog = c.catalog,
                                    !.tagged = c.tagged, !.result = "running"]
    /\ http = NoRequest
    /\ remote = [i \in Ids |-> NoProduct]
    /\ files = <<>>
    /\ next_id = MaxRemote + 1
    /\ cache = [loaded |-> FALSE, map |-> EmptyMap]
    /\ locs = "unloaded"
    /\ failed_images = 0
    /\ args = [dry_run |-> FALSE, disable_prune |-> FALSE, skip_images |-> FALSE]
    /\ pc = "call"
    /\ file_idx = 0
    /\ grp_idx = 0
    /\ g = G0
    /\ summary = Summary0
    /\ processed_handles = {}
    /\ summary_total = SummaryTotal0
    /\ current_handles = {}
    /\ to_delete = <<>>
    /\ deleted = 0
    /\ calls = <<>>
    /\ faults = MaxFailures
    /\ run_no = 1
    /\ listing = "any"
    /\ creds = AllCreds
    /\ report = 0

NextScan == ScanPage

SpecScan == InitScan /\ [][NextScan]_vars

\* the loop runs on: every GET returns or raises
FairScan == SpecScan /\ WF_vars(NextScan)

\* the identifiers a returned scan has to hold
Expected == IF scan.fn = "cache" THEN scan.catalog ELSE scan.tagged

\* what holds of a scan at every moment
ScanSound ==
    /\ NoRepeat(scan.seen)
    /\ SeqToSet(scan.seen) \subseteq scan.catalog
    /\ scan.requests <= (Cardinality(scan.catalog) \div PAGE_LIMIT) + 1
    /\ scan.result = "returned" =>
          /\ SeqToSet(scan.seen) = scan.catalog
          /\ scan.products = {<<i, i>> : i \in Expected}
          /\ scan.requests = (Cardinality(scan.catalog) \div PAGE_LIMIT) + 1

\* C39: a paginated scan terminates, and when it returns it has been handed every
\* product of the catalog exactly once and holds one entry for each of them (for each
\* scraper-tagged one in list_scraper_products), whatever the number of products: none,
\* less than a page, or a multiple of the page size
C39_ScanComplete == []ScanSound /\ <>(scan.result \in {"returned", "raised"})

\* a scan of the scraper products over two full pages returned after a third, empty one
C39_Witness ==
    /\ scan.fn = "scraper"
    /\ scan.result = "returned"
    /\ Cardinality(scan.catalog) = 2 * PAGE_LIMIT
    /\ scan.requests = 3
    /\ scan.tagged # {} /\ scan.tagged # scan.catalog

\* a scan of an empty catalog returned after one request
C39_WitnessEmpty ==
    /\ scan.fn = "cache" /\ scan.result = "returned"
    /\ scan.catalog = {} /\ scan.requests = 1

\* a scan whose last page is short returned without a further request
C39_WitnessShort ==
    /\ scan.fn = "cache" /\ scan.result = "returned"
    /\ Cardinality(scan.catalog) = PAGE_LIMIT + 1
    /\ scan.requests = 2


====
